---- MODULE Spec2Model ----
(***************************************************************************)
(* A model of the rlifesrc search engine: the cell graph of a bounded      *)
(* space-time world, the propagation stack, and the search driver          *)
(* (proceed / cancel / backup / analyze / go / decide / search).           *)
(***************************************************************************)
EXTENDS Integers, Sequences, FiniteSets, TLC

(***************************************************************************)
(* Bounds of the model.                                                    *)
(***************************************************************************)
\* largest max_cell_count a configuration may ask for
MaxCap == 4
\* largest max_step a caller passes to search
MaxStepArg == 1

(***************************************************************************)
(* States (cells.rs).  An Option<State> is 0 for None.                     *)
(***************************************************************************)
Unknown == 0
Alive == 1
Dead == 2

\* impl Not for State
Not(s) == IF s = Alive THEN Dead ELSE Alive

\* Option<usize> / Option<u64>: None is -1
NoneVal == -1

\* the synthetic background cell that stands for every out-of-range slot
NoCell == <<-1, -1, -1>>

(***************************************************************************)
(* Configuration (config.rs).                                              *)
(***************************************************************************)
Transforms == {"Id", "R90", "R180", "R270", "F-", "F|", "F\\", "F/"}
Symmetries == {"C1", "C2", "C4", "D2-", "D2|", "D2\\", "D2/", "D4+", "D4X", "D8"}

\* Transform::square_world
TransformSquareWorld(tr) == tr \in {"R90", "R270", "F\\", "F/"}

\* Symmetry::square_world
SymmetrySquareWorld(sy) == sy \in {"C4", "D2\\", "D2/", "D4X", "D8"}

Abs(n) == IF n < 0 THEN -n ELSE n

\* isize division, which rounds towards zero
Quot(a, b) == IF a >= 0 THEN a \div b ELSE -((-a) \div b)

\* auto_search_order without the adjustment for the symmetry
auto_search_order_plain_size(cfg) ==
    IF cfg.search_order # "Auto" THEN cfg.search_order
    ELSE IF cfg.width > cfg.height THEN "ColumnFirst"
    ELSE IF cfg.width < cfg.height THEN "RowFirst"
    ELSE IF Abs(cfg.dx) >= Abs(cfg.dy) THEN "ColumnFirst"
    ELSE "RowFirst"

\* Config::auto_search_order; search_order is "Auto" for None
auto_search_order(cfg) ==
    IF cfg.search_order # "Auto" THEN cfg.search_order
    ELSE LET width == IF cfg.symmetry = "D2|" THEN Quot(cfg.width + 1, 2) ELSE cfg.width
             height == IF cfg.symmetry = "D2-" THEN Quot(cfg.height + 1, 2) ELSE cfg.height
         IN  IF width > height THEN "ColumnFirst"
             ELSE IF width < height THEN "RowFirst"
             ELSE IF Abs(cfg.dx) >= Abs(cfg.dy) THEN "ColumnFirst"
             ELSE "RowFirst"

(***************************************************************************)
(* The cell graph built by World::new.                                     *)
(***************************************************************************)
Cells(cfg) == (0 .. cfg.width - 1) \X (0 .. cfg.height - 1) \X (0 .. cfg.period - 1)

InRange(cfg, x, y) == x >= 0 /\ x < cfg.width /\ y >= 0 /\ y < cfg.height

\* find_cell: the cell at a coordinate, or the background cell
find_cell(cfg, x, y, t) == IF InRange(cfg, x, y) THEN <<x, y, t>> ELSE NoCell

\* background of a cell: rules without B0 have a dead background
background(c) == Dead

\* the eight neighbour offsets, index 0..7; the mirror of index i is 7 - i
NbhdOffset(i) ==
    CASE i = 0 -> <<-1, -1>> [] i = 1 -> <<-1, 0>> [] i = 2 -> <<-1, 1>>
      [] i = 3 -> <<0, -1>>  [] i = 4 -> <<0, 1>>
      [] i = 5 -> <<1, -1>>  [] i = 6 -> <<1, 0>>  [] i = 7 -> <<1, 1>>

nbhd(cfg, c, i) ==
    find_cell(cfg, c[1] + NbhdOffset(i)[1], c[2] + NbhdOffset(i)[2], c[3])

\* the transformation applied to a coordinate
ApplyTransform(cfg, tr, x, y) ==
    LET w == cfg.width
        h == cfg.height
    IN  CASE tr = "Id"   -> <<x, y>>
          [] tr = "R90"  -> <<y, w - 1 - x>>
          [] tr = "R180" -> <<w - 1 - x, h - 1 - y>>
          [] tr = "R270" -> <<h - 1 - y, x>>
          [] tr = "F-"   -> <<x, h - 1 - y>>
          [] tr = "F|"   -> <<w - 1 - x, y>>
          [] tr = "F\\"  -> <<y, x>>
          [] tr = "F/"   -> <<h - 1 - y, w - 1 - x>>

InverseTransform(tr) ==
    CASE tr = "R90" -> "R270" [] tr = "R270" -> "R90" [] OTHER -> tr

\* successor: same position in the next generation; the last generation
\* wraps to generation 0 through the inverse transformation and translation
succ(cfg, c) ==
    IF c[3] < cfg.period - 1 THEN <<c[1], c[2], c[3] + 1>>
    ELSE LET q == ApplyTransform(cfg, InverseTransform(cfg.transform),
                                 c[1] - cfg.dx, c[2] - cfg.dy)
         IN  find_cell(cfg, q[1], q[2], 0)

\* predecessor: the cell whose successor this cell is, if any
pred(cfg, c) ==
    IF c[3] > 0 THEN <<c[1], c[2], c[3] - 1>>
    ELSE LET q == ApplyTransform(cfg, cfg.transform, c[1], c[2])
         IN  find_cell(cfg, q[1] + cfg.dx, q[2] + cfg.dy, cfg.period - 1)

\* the transformations of a symmetry group other than the identity
SymTransforms(sy) ==
    CASE sy = "C1"   -> {}
      [] sy = "C2"   -> {"R180"}
      [] sy = "C4"   -> {"R90", "R180", "R270"}
      [] sy = "D2-"  -> {"F-"}
      [] sy = "D2|"  -> {"F|"}
      [] sy = "D2\\" -> {"F\\"}
      [] sy = "D2/"  -> {"F/"}
      [] sy = "D4+"  -> {"F-", "F|", "R180"}
      [] sy = "D4X"  -> {"F\\", "F/", "R180"}
      [] sy = "D8"   -> Transforms \ {"Id"}

\* symmetry partners of a cell, as a set (all in the same generation)
symSet(cfg, c) ==
    { <<ApplyTransform(cfg, tr, c[1], c[2])[1],
        ApplyTransform(cfg, tr, c[1], c[2])[2], c[3]>> :
          tr \in SymTransforms(cfg.symmetry) } \ {c}

\* a set of cells as a sequence in a fixed order (x, then y, then t)
CellLess(a, b) ==
    \/ a[1] < b[1]
    \/ a[1] = b[1] /\ a[2] < b[2]
    \/ a[1] = b[1] /\ a[2] = b[2] /\ a[3] < b[3]

RECURSIVE SetToSeq(_)
SetToSeq(S) ==
    IF S = {} THEN <<>>
    ELSE LET m == CHOOSE a \in S : \A b \in S \ {a} : CellLess(a, b)
         IN  <<m>> \o SetToSeq(S \ {m})

\* cell.sym: ordered list of symmetry partners
sym(cfg, c) == SetToSeq(symSet(cfg, c))

\* search list: t fastest, then x then y (RowFirst) or y then x (ColumnFirst)
search_list(cfg) ==
    LET w == cfg.width
        h == cfg.height
        p == cfg.period
    IN  IF auto_search_order(cfg) = "RowFirst"
        THEN [k \in 1 .. w * h * p |->
                <<((k - 1) \div p) % w, (k - 1) \div (p * w), (k - 1) % p>>]
        ELSE [k \in 1 .. w * h * p |->
                <<(k - 1) \div (p * h), ((k - 1) \div p) % h, (k - 1) % p>>]

is_gen0(c) == c[3] = 0

\* first row (RowFirst) or first column (ColumnFirst) of generation 0
is_front(cfg, c) ==
    /\ c[3] = 0
    /\ IF auto_search_order(cfg) = "RowFirst" THEN c[2] = 0 ELSE c[1] = 0

(***************************************************************************)
(* Reasons (clause.rs).  Every reason is a record of the same shape.       *)
(***************************************************************************)
NoReason == [tag |-> "None", i |-> 0, cell |-> NoCell, sym |-> NoCell]
Assume(i) == [tag |-> "Assume", i |-> i, cell |-> NoCell, sym |-> NoCell]
ReasonInit == [tag |-> "Init", i |-> 0, cell |-> NoCell, sym |-> NoCell]
ReasonRule(c) == [tag |-> "Rule", i |-> 0, cell |-> c, sym |-> NoCell]
ReasonSym(c, s) == [tag |-> "Sym", i |-> 0, cell |-> c, sym |-> s]
ReasonConflict == [tag |-> "Conflict", i |-> 0, cell |-> NoCell, sym |-> NoCell]
ReasonCellCount == [tag |-> "CellCount", i |-> 0, cell |-> NoCell, sym |-> NoCell]
\* Ok(()) of a Result<(), ConflReason>
Ok == [tag |-> "Ok", i |-> 0, cell |-> NoCell, sym |-> NoCell]

(***************************************************************************)
(* The rule B3/S23 and the neighbourhood descriptor.                       *)
(*   bits 0..1   state of the cell itself   (0b01 alive, 0b10 dead)        *)
(*   bits 2..3   state of the successor                                    *)
(*   bit  4+i    neighbour i is alive;  bit 12+i  neighbour i is dead      *)
(***************************************************************************)
Birth == {3}
Survive == {2, 3}

Pow2(n) == 2 ^ n

Bit(d, k) == (d \div Pow2(k)) % 2

\* the descriptor bits a neighbour in slot i contributes in state s
NbBits(s, i) ==
    IF s = Alive THEN Pow2(4 + i) ELSE IF s = Dead THEN Pow2(12 + i) ELSE 0

DescSelf(d) == d % 4
DescSucc(d) == (d \div 4) % 4
DescAlives(d) == Cardinality({i \in 0 .. 7 : Bit(d, 4 + i) = 1})
DescDeads(d) == Cardinality({i \in 0 .. 7 : Bit(d, 12 + i) = 1})

\* Rule::new_desc: all eight neighbours in state `state`, successor known
new_desc(state, succ_state) ==
    state + 4 * succ_state + Pow2(IF state = Alive THEN 4 ELSE 12) * 255

\* Rule::update_desc: the cell changed from `old` to `new`; the change shows
\* in its own descriptor (self bits), in the descriptor of the cell whose
\* successor it is (succ bits) and in each neighbour's (mirror slot)
RECURSIVE UpdateNbhd(_, _, _, _, _, _)
UpdateNbhd(cfg, desc, cell, old, new, i) ==
    IF i > 7 THEN desc
    ELSE LET n == nbhd(cfg, cell, i)
         IN  UpdateNbhd(cfg,
                        IF n = NoCell THEN desc
                        ELSE [desc EXCEPT ![n] = @ + NbBits(new, 7 - i) - NbBits(old, 7 - i)],
                        cell, old, new, i + 1)

update_desc(cfg, desc, cell, old, new) ==
    LET p == pred(cfg, cell)
        d1 == [desc EXCEPT ![cell] = @ + new - old]
        d2 == IF p = NoCell THEN d1 ELSE [d1 EXCEPT ![p] = @ + 4 * (new - old)]
    IN  UpdateNbhd(cfg, d2, cell, old, new, 0)

\* the transition function of the rule
Transition(s, n) ==
    IF s = Alive THEN (IF n \in Survive THEN Alive ELSE Dead)
    ELSE (IF n \in Birth THEN Alive ELSE Dead)

(***************************************************************************)
(* World (world.rs).                                                       *)
(***************************************************************************)
\* the descriptor of a cell of the freshly built graph: every in-range
\* cell is unknown, every out-of-range slot holds the background
InitDesc(cfg, c) ==
    LET full == new_desc(background(c), background(c))
        own == IF succ(cfg, c) = NoCell THEN full - background(c)
               ELSE full - background(c) - 4 * background(c)
        known == {i \in 0 .. 7 : nbhd(cfg, c, i) # NoCell}
        RECURSIVE Drop(_, _)
        Drop(S, d) ==
            IF S = {} THEN d
            ELSE LET i == CHOOSE j \in S : TRUE
                 IN  Drop(S \ {i}, d - NbBits(background(c), i))
    IN  Drop(known, own)

\* Life::parse_rule and NtLife::parse_rule accept the rule string
ParseRule(rule_string) == rule_string \in {"B3/S23"}

\* World::new
NewWorld(cfg, reduce_max) ==
    [ config |-> cfg,
      state |-> [c \in Cells(cfg) |-> Unknown],
      desc |-> [c \in Cells(cfg) |-> InitDesc(cfg, c)],
      cell_level |-> [c \in Cells(cfg) |-> NoneVal],
      reason |-> [c \in Cells(cfg) |-> NoReason],
      set_stack |-> <<>>,
      check_index |-> 0,
      search_index |-> 0,
      level |-> 0,
      cell_count |-> [t \in 0 .. cfg.period - 1 |-> 0],
      front_cell_count |-> 0,
      conflicts |-> 0,
      max_cell_count |-> cfg.max_cell_count,
      non_empty_front |-> cfg.non_empty_front,
      new_state |-> cfg.new_state,
      reduce_max |-> reduce_max ]

\* Option<State> of a cell or of the background cell
StateOf(w, c) == IF c = NoCell THEN background(c) ELSE w.state[c]

\* Option<u32> level of a cell; the background cell was never assigned
LevelOf(w, c) == IF c = NoCell THEN NoneVal ELSE w.cell_level[c]

FrontUnknown(w) ==
    \E c \in Cells(w.config) : is_front(w.config, c) /\ w.state[c] = Unknown

\* the checks of set_cell with the cap on generation 0 left out
CellCountCheck_no_cap(w, cell, state) ==
    IF /\ w.non_empty_front
       /\ is_front(w.config, cell)
       /\ state = Dead
       /\ w.front_cell_count = 0
       /\ ~FrontUnknown(w)
    THEN ReasonCellCount
    ELSE Ok

\* the early-termination checks of set_cell, made once the cell is set:
\* the cap on the live cells of generation 0, and the front that must not
\* be left empty
CellCountCheck(w, cell, state) ==
    IF /\ w.max_cell_count # NoneVal
       /\ w.cell_count[0] > w.max_cell_count
    THEN ReasonCellCount
    ELSE IF /\ w.non_empty_front
            /\ is_front(w.config, cell)
            /\ state = Dead
            /\ w.front_cell_count = 0
            /\ ~FrontUnknown(w)
    THEN ReasonCellCount
    ELSE Ok

\* World::set_cell; a result is [w |-> world, err |-> Ok or a ConflReason]
set_cell(w, cell, state, reason) ==
    IF w.state[cell] # Unknown
    THEN [w |-> w,
          err |-> IF w.state[cell] = state THEN Ok
                  ELSE IF reason.tag = "Sym" THEN ReasonSym(reason.cell, cell)
                  ELSE ReasonRule(cell)]
    ELSE LET cfg == w.config
             lvl == IF reason.tag = "Assume" THEN w.level + 1 ELSE w.level
             w1 == [w EXCEPT
                      !.state[cell] = state,
                      !.cell_level[cell] = lvl,
                      !.reason[cell] = reason,
                      !.level = lvl,
                      !.set_stack = Append(w.set_stack, cell),
                      !.desc = update_desc(cfg, w.desc, cell, Unknown, state),
                      !.cell_count[cell[3]] = IF state = Alive THEN @ + 1 ELSE @,
                      !.front_cell_count =
                          IF is_front(cfg, cell) /\ state = Alive THEN @ + 1 ELSE @]
         IN  [w |-> w1, err |-> CellCountCheck(w1, cell, state)]

\* clear_cell that clears nothing
clear_cell_nothing(w, cell) == w

\* clear_cell that leaves the decision level where it was
clear_cell_keeps_level(w, cell) ==
    IF w.state[cell] = Unknown THEN w
    ELSE [w EXCEPT
            !.state[cell] = Unknown,
            !.cell_level[cell] = NoneVal,
            !.reason[cell] = NoReason,
            !.desc = update_desc(w.config, w.desc, cell, w.state[cell], Unknown),
            !.cell_count[cell[3]] = IF w.state[cell] = Alive THEN @ - 1 ELSE @,
            !.front_cell_count =
                IF is_front(w.config, cell) /\ w.state[cell] = Alive
                THEN @ - 1 ELSE @]

\* World::clear_cell
clear_cell(w, cell) ==
    IF w.state[cell] = Unknown THEN w
    ELSE LET cfg == w.config
             s == w.state[cell]
         IN  [w EXCEPT
                !.state[cell] = Unknown,
                !.cell_level[cell] = NoneVal,
                !.reason[cell] = NoReason,
                !.level = IF w.reason[cell].tag = "Assume" THEN @ - 1 ELSE @,
                !.desc = update_desc(cfg, w.desc, cell, s, Unknown),
                !.cell_count[cell[3]] = IF s = Alive THEN @ - 1 ELSE @,
                !.front_cell_count =
                    IF is_front(cfg, cell) /\ s = Alive THEN @ - 1 ELSE @]

\* World::get_unknown: index (0-based) of the first unknown cell of the
\* search list at or after `start`, or NoneVal
get_unknown(w, start) ==
    LET sl == search_list(w.config)
        S == {k \in start .. Len(sl) - 1 : w.state[sl[k + 1]] = Unknown}
    IN  IF S = {} THEN NoneVal ELSE CHOOSE k \in S : \A j \in S : k <= j

\* nontrivial that takes every pattern for a result
nontrivial_any(w) == TRUE

\* World::nontrivial: some cell differs from its background
nontrivial(w) ==
    \E c \in Cells(w.config) : w.state[c] # Unknown /\ w.state[c] # background(c)

(***************************************************************************)
(* Rule::consistify for an outer-totalistic two-state rule.                *)
(***************************************************************************)
\* the (self, live neighbour count) pairs the descriptor still allows
Consistent(d) ==
    LET selfs == IF DescSelf(d) = Unknown THEN {Alive, Dead} ELSE {DescSelf(d)}
        a == DescAlives(d)
        u == 8 - a - DescDeads(d)
    IN  {k \in selfs \X (a .. a + u) :
            DescSucc(d) = Unknown \/ Transition(k[1], k[2]) = DescSucc(d)}

\* set `target` on behalf of consistify, unless a conflict was already met
\* or the target is known
Imply(r, target, state, by) ==
    IF r.err # Ok \/ target = NoCell THEN r
    ELSE IF r.w.state[target] # Unknown THEN r
    ELSE set_cell(r.w, target, state, ReasonRule(by))

RECURSIVE ImplyNbhd(_, _, _, _)
ImplyNbhd(r, cell, state, i) ==
    IF i > 7 THEN r
    ELSE ImplyNbhd(Imply(r, nbhd(r.w.config, cell, i), state, cell), cell, state, i + 1)

\* the successor is forced when every allowed transition agrees on it
ImplySucc(r, cell, d, K) ==
    IF DescSucc(d) = Unknown /\ Cardinality({Transition(k[1], k[2]) : k \in K}) = 1
    THEN Imply(r, succ(r.w.config, cell),
               CHOOSE s \in {Transition(k[1], k[2]) : k \in K} : TRUE, cell)
    ELSE r

\* the cell itself is forced when only one state of it is allowed
ImplySelf(r, cell, d, K) ==
    IF DescSelf(d) = Unknown /\ Cardinality({k[1] : k \in K}) = 1
    THEN Imply(r, cell, CHOOSE s \in {k[1] : k \in K} : TRUE, cell)
    ELSE r

\* the unknown neighbours are forced when they must all be alive, or all
\* be dead
ImplyCount(r, cell, d, K) ==
    LET a == DescAlives(d)
        u == 8 - a - DescDeads(d)
        counts == {k[2] : k \in K}
    IN  IF u > 0 /\ counts = {a + u} THEN ImplyNbhd(r, cell, Alive, 0)
        ELSE IF u > 0 /\ counts = {a} THEN ImplyNbhd(r, cell, Dead, 0)
        ELSE r

\* the implications of a descriptor that allows the pairs K
ConsistifyDesc(w, cell, d, K) ==
    IF K = {} THEN [w |-> w, err |-> ReasonRule(cell)]
    ELSE ImplyCount(ImplySelf(ImplySucc([w |-> w, err |-> Ok], cell, d, K),
                              cell, d, K),
                    cell, d, K)

consistify(w, cell) ==
    IF cell = NoCell THEN [w |-> w, err |-> Ok]
    ELSE ConsistifyDesc(w, cell, w.desc[cell], Consistent(w.desc[cell]))

(***************************************************************************)
(* search.rs                                                               *)
(***************************************************************************)
RECURSIVE Consistify8(_, _, _)
Consistify8(r, cell, i) ==
    IF r.err # Ok \/ i > 7 THEN r
    ELSE Consistify8(consistify(r.w, nbhd(r.w.config, cell, i)), cell, i + 1)

\* the predecessor's turn in consistify10
ConsistifyPred(r, cell) ==
    IF r.err # Ok THEN r ELSE consistify(r.w, pred(r.w.config, cell))

\* consistify10 that looks at the cell alone
consistify10_cell_only(w, cell) == consistify(w, cell)

\* World::consistify10: the cell, its predecessor, its eight neighbours
consistify10(w, cell) ==
    Consistify8(ConsistifyPred(consistify(w, cell), cell), cell, 0)

\* proceed with the symmetry loop left out
ProceedSym_no_symmetry(r, cell, state, syms, k) == r

\* the symmetry loop of proceed
RECURSIVE ProceedSym(_, _, _, _, _)
ProceedSym(r, cell, state, syms, k) ==
    IF r.err # Ok \/ k > Len(syms) THEN r
    ELSE LET s == syms[k]
             old_state == r.w.state[s]
         IN  IF old_state # Unknown
             THEN IF state # old_state
                  THEN [w |-> r.w, err |-> ReasonSym(cell, s)]
                  ELSE ProceedSym(r, cell, state, syms, k + 1)
             ELSE ProceedSym(set_cell(r.w, s, state, ReasonSym(cell, s)),
                             cell, state, syms, k + 1)

\* proceed: the cell has been matched with its symmetry partners
ProceedCell(r, cell) ==
    IF r.err # Ok THEN r ELSE consistify10(r.w, cell)

\* World::proceed
RECURSIVE proceed(_)
\* proceed: the cell at check_index is done
ProceedNext(r) ==
    IF r.err # Ok THEN r ELSE proceed([r.w EXCEPT !.check_index = @ + 1])

proceed(w) ==
    IF w.check_index < Len(w.set_stack)
    THEN ProceedNext(
             ProceedCell(
                 ProceedSym([w |-> w, err |-> Ok],
                            w.set_stack[w.check_index + 1],
                            w.state[w.set_stack[w.check_index + 1]],
                            sym(w.config, w.set_stack[w.check_index + 1]), 1),
                 w.set_stack[w.check_index + 1]))
    ELSE [w |-> w, err |-> Ok]

Pop(stack) == SubSeq(stack, 1, Len(stack) - 1)

\* cancel that leaves search_index where it was
RECURSIVE cancel_keeps_search_index(_)
cancel_keeps_search_index(w) ==
    IF w.set_stack = <<>>
    THEN [w |-> [w EXCEPT !.check_index = 0],
          cell |-> NoCell, state |-> Unknown]
    ELSE LET cell == w.set_stack[Len(w.set_stack)]
             w1 == [w EXCEPT !.set_stack = Pop(@)]
         IN  IF w.reason[cell].tag = "Assume"
             THEN [w |-> clear_cell([w1 EXCEPT !.check_index = Len(w1.set_stack)],
                                    cell),
                   cell |-> cell, state |-> w.state[cell]]
             ELSE cancel_keeps_search_index(clear_cell(w1, cell))

\* World::cancel; cell is NoCell when it returns None
RECURSIVE cancel(_)
cancel(w) ==
    IF w.set_stack = <<>>
    THEN [w |-> [w EXCEPT !.check_index = 0, !.search_index = 0],
          cell |-> NoCell, state |-> Unknown]
    ELSE LET cell == w.set_stack[Len(w.set_stack)]
             w1 == [w EXCEPT !.set_stack = Pop(@)]
         IN  IF w.reason[cell].tag = "Assume"
             THEN [w |-> clear_cell([w1 EXCEPT !.check_index = Len(w1.set_stack),
                                               !.search_index = w.reason[cell].i + 1],
                                    cell),
                   cell |-> cell, state |-> w.state[cell]]
             ELSE cancel(clear_cell(w1, cell))

\* World::backup
RECURSIVE backup(_)
\* backup: the cancelled cell has been set to its other state
BackupSet(r) ==
    IF r.err = Ok THEN [w |-> r.w, ok |-> TRUE] ELSE backup(r.w)

\* backup that assigns the cancelled cell the state it had
BackupCell_same_state(c) ==
    IF c.cell = NoCell THEN [w |-> c.w, ok |-> FALSE]
    ELSE BackupSet(set_cell(c.w, c.cell, c.state, ReasonConflict))

\* backup: cancel has returned
BackupCell(c) ==
    IF c.cell = NoCell THEN [w |-> c.w, ok |-> FALSE]
    ELSE BackupSet(set_cell(c.w, c.cell, Not(c.state), ReasonConflict))

backup(w) == BackupCell(cancel(w))

\* the cells a descriptor names as known, other than `cell` (clause.rs)
DescCells(w, cell0, cell) ==
    LET cfg == w.config
        desc == w.desc[cell0]
    IN  (IF desc % 4 # 0 /\ cell # cell0 THEN {cell0} ELSE {})
        \cup (IF (desc \div 4) % 4 # 0 /\ succ(cfg, cell0) # NoCell
                 /\ cell # succ(cfg, cell0)
              THEN {succ(cfg, cell0)} ELSE {})
        \cup {nbhd(cfg, cell0, i) : i \in {j \in 0 .. 7 :
                 /\ Bit(desc, 4 + j) + Bit(desc, 12 + j) # 0
                 /\ nbhd(cfg, cell0, j) # NoCell
                 /\ cell # nbhd(cfg, cell0, j)}}

\* SetReason::cells
SetReasonCells(w, reason, cell) ==
    IF reason.tag = "Rule" THEN DescCells(w, reason.cell, cell)
    ELSE IF reason.tag = "Sym" THEN {reason.cell}
    ELSE {}

\* ConflReason::cells
ConflReasonCells(w, reason) ==
    IF reason.tag = "Rule" THEN DescCells(w, reason.cell, <<-2, -2, -2>>)
    ELSE IF reason.tag = "Sym" THEN {reason.cell, reason.sym}
    ELSE {}

Max(a, b) == IF a >= b THEN a ELSE b

\* the backjump of analyze: while max_level < self.level { self.cancel(); }
\* cancel on an empty stack changes nothing, so the loop would never end
\* a backjump that cancels nothing
Backjump_stays(w, max_level) == [w |-> w, hang |-> FALSE]

RECURSIVE Backjump(_, _)
Backjump(w, max_level) ==
    IF max_level < w.level
    THEN IF w.set_stack = <<>> /\ w.check_index = 0 /\ w.search_index = 0
         THEN [w |-> w, hang |-> TRUE]
         ELSE Backjump(cancel(w).w, max_level)
    ELSE [w |-> w, hang |-> FALSE]

\* what analyze returns when it ends with a backup
AnalyzeBackup(b, via) ==
    [w |-> b.w, ok |-> b.ok, hang |-> FALSE, via |-> via,
     uip |-> <<>>, trace |-> <<>>]

\* analyze: the cancelled cell has been set to its other state
FlipSet(r, via) ==
    IF r.err = Ok
    THEN [w |-> r.w, ok |-> TRUE, hang |-> FALSE, via |-> via,
          uip |-> <<>>, trace |-> <<>>]
    ELSE AnalyzeBackup(backup(r.w), via)

\* flip a cancelled cell, or back up further; `via` names the branch of
\* analyze that ended it
FlipOrBackup(w, cell, state, via) ==
    FlipSet(set_cell(w, cell, Not(state), ReasonConflict), via)

\* what analyze knows when it meets the unique implication point: the
\* cell, the state it had, max_level and the cells seen
Uip(cell, state, max_level, seen) ==
    [cell |-> cell, state |-> state, max_level |-> max_level, seen |-> seen]

\* the result of analyze in its backjump branch, with what it knew
WithUip(a, uip) == [a EXCEPT !.uip = <<uip>>]

\* analyze: the backjump has been made
FlipAfterJump(j, uip) ==
    IF j.hang
    THEN WithUip([w |-> j.w, ok |-> FALSE, hang |-> TRUE, via |-> "uip",
                  uip |-> <<>>, trace |-> <<>>], uip)
    ELSE WithUip(FlipOrBackup(j.w, uip.cell, uip.state, "uip"), uip)

\* the loop of analyze
RECURSIVE AnalyzeLoop(_, _, _, _, _)
\* analyze: a propagated cell the clause has seen was popped and cleared
AnalyzeSeen(w2, cell, reason, state, seen1, max_level1, counter1) ==
    IF counter1 = 1
    THEN FlipAfterJump(Backjump(w2, max_level1),
                       Uip(cell, state, max_level1, seen1))
    ELSE AnalyzeLoop(w2, SetReasonCells(w2, reason, cell), seen1, max_level1,
                     IF LevelOf(w2, cell) = w2.level
                     THEN counter1 - 1 ELSE counter1)

\* AnalyzePop whose Assume branch leaves check_index where proceed left it
AnalyzePop_keeps_check_index(w, cell, reason, state, w1, seen1, max_level1, counter1) ==
    IF reason.tag = "Assume"
    THEN FlipOrBackup(
            clear_cell([w1 EXCEPT !.search_index = reason.i + 1], cell),
            cell, state, "assume")
    ELSE IF reason.tag \in {"Conflict", "Init"}
    THEN AnalyzeBackup(backup(clear_cell(w1, cell)), "conflict")
    ELSE IF cell \in seen1
    THEN AnalyzeSeen(clear_cell(w1, cell), cell, reason, state, seen1,
                     max_level1, counter1)
    ELSE AnalyzeLoop(clear_cell(w1, cell), {}, seen1, max_level1, counter1)

\* analyze: the literals of the clause are counted, a cell is popped
AnalyzePop(w, cell, reason, state, w1, seen1, max_level1, counter1) ==
    IF reason.tag = "Assume"
    THEN FlipOrBackup(
            clear_cell([w1 EXCEPT !.check_index = Len(w1.set_stack),
                                  !.search_index = reason.i + 1], cell),
            cell, state, "assume")
    ELSE IF reason.tag \in {"Conflict", "Init"}
    THEN AnalyzeBackup(backup(clear_cell(w1, cell)), "conflict")
    ELSE IF cell \in seen1
    THEN AnalyzeSeen(clear_cell(w1, cell), cell, reason, state, seen1,
                     max_level1, counter1)
    ELSE AnalyzeLoop(clear_cell(w1, cell), {}, seen1, max_level1, counter1)

\* the highest level below the current one among the cells `fresh`
MaxLevel(w, fresh, max_level) ==
    LET lower == {LevelOf(w, c) : c \in {e \in fresh :
                     LevelOf(w, e) # w.level /\ LevelOf(w, e) > 0}}
    IN  IF lower = {} THEN max_level
        ELSE Max(max_level, CHOOSE m \in lower : \A n \in lower : m >= n)

\* what one iteration of the loop holds once the literals of the clause
\* are counted and before a cell is popped
Iteration(w, seen1, counter1) ==
    [counter |-> counter1, seen |-> seen1, set_stack |-> w.set_stack,
     cell_level |-> w.cell_level, level |-> w.level]

\* the result of the loop, with the iteration it started from in front of
\* the iterations that followed
Iterated(a, it) == [a EXCEPT !.trace = <<it>> \o @]

\* analyze: the literals of the clause are counted
AnalyzeCounted(w, seen1, max_level1, counter1) ==
    Iterated(
        IF w.set_stack = <<>>
        THEN [w |-> [w EXCEPT !.check_index = 0, !.search_index = 0],
              ok |-> FALSE, hang |-> FALSE, via |-> "empty",
              uip |-> <<>>, trace |-> <<>>]
        ELSE AnalyzePop(w, w.set_stack[Len(w.set_stack)],
                        w.reason[w.set_stack[Len(w.set_stack)]],
                        w.state[w.set_stack[Len(w.set_stack)]],
                        [w EXCEPT !.set_stack = Pop(@)],
                        seen1, max_level1, counter1),
        Iteration(w, seen1, counter1))

AnalyzeLoop(w, reason_clause, seen, max_level, counter) ==
    AnalyzeCounted(w, seen \cup reason_clause,
                   MaxLevel(w, reason_clause \ seen, max_level),
                   counter + Cardinality({c \in reason_clause \ seen :
                                             LevelOf(w, c) = w.level}))

\* World::analyze
analyze(w, reason) ==
    IF reason.tag \in {"Conflict", "CellCount"}
    THEN AnalyzeBackup(backup(w), "backup")
    ELSE AnalyzeLoop(w, ConflReasonCells(w, reason), {}, 0, 0)

\* a decide that takes the random state whatever new_state says
NewStateFor_random(w, cell, coin) == coin

\* the state decide assigns: NewState::Choose(Dead) is the background,
\* Choose(Alive) its opposite, Random the coin `coin`
NewStateFor(w, cell, coin) ==
    IF w.new_state = "Dead" THEN background(cell)
    ELSE IF w.new_state = "Alive" THEN Not(background(cell))
    ELSE coin

\* decide with the result of set_cell dropped
decide_ignores_conflict(w, coin) ==
    LET i == get_unknown(w, w.search_index)
    IN  IF i = NoneVal THEN [w |-> w, res |-> "None", err |-> Ok]
        ELSE LET cell == search_list(w.config)[i + 1]
                 r == set_cell([w EXCEPT !.search_index = i + 1], cell,
                               NewStateFor(w, cell, coin), Assume(i))
             IN  [w |-> r.w, res |-> "Some", err |-> Ok]

\* decide with the assignment left out
decide_without_set(w, coin) ==
    IF get_unknown(w, w.search_index) = NoneVal
    THEN [w |-> w, res |-> "None", err |-> Ok]
    ELSE [w |-> w, res |-> "Some", err |-> Ok]

\* decide: what set_cell returned
DecideResult(r) == [w |-> r.w, res |-> "Some", err |-> r.err]

\* decide: get_unknown has returned the index i, or None
DecideAt(w, i, coin) ==
    IF i = NoneVal THEN [w |-> w, res |-> "None", err |-> Ok]
    ELSE DecideResult(set_cell([w EXCEPT !.search_index = i + 1],
                               search_list(w.config)[i + 1],
                               NewStateFor(w, search_list(w.config)[i + 1], coin),
                               Assume(i)))

\* World::decide; res is "None" when no unknown cell is left, else the
\* result of set_cell
decide(w, coin) == DecideAt(w, get_unknown(w, w.search_index), coin)

MinCellCount(w) ==
    CHOOSE m \in {w.cell_count[t] : t \in DOMAIN w.cell_count} :
        \A t \in DOMAIN w.cell_count : m <= w.cell_count[t]

\* usize::MAX, what 0 - 1 wraps to without overflow checks
UsizeMax == 2147483647

\* search: backup has returned `b`; the call goes on or returns None
BackupOrNone(b) ==
    [w |-> b.w, ret |-> IF b.ok THEN "Continue" ELSE "None"]

\* the entry of World::search: a world with no unknown cell is backed up
SearchEnter(w) ==
    IF get_unknown(w, 0) = NoneVal THEN BackupOrNone(backup(w))
    ELSE [w |-> w, ret |-> "Continue"]

\* the step bound with None taken for a number
StepBound_unbounded(w, step_count, max_step) ==
    IF step_count > max_step
    THEN [w |-> w, ret |-> "Searching"]
    ELSE [w |-> w, ret |-> "Continue"]

\* the end of an iteration of World::search: the step bound
StepBound(w, step_count, max_step) ==
    IF max_step # NoneVal /\ step_count > max_step
    THEN [w |-> w, ret |-> "Searching"]
    ELSE [w |-> w, ret |-> "Continue"]

\* the loop body with the nontrivial test left out
SearchBody_any_pattern(w, step_count, max_step, coin, checked) ==
    LET d == decide(w, coin)
    IN  IF d.res = "Some"
        THEN IF d.err # Ok
             THEN LET b == backup(d.w)
                  IN  IF b.ok THEN StepBound(b.w, step_count, max_step)
                      ELSE [w |-> b.w, ret |-> "None"]
             ELSE StepBound(d.w, step_count, max_step)
        ELSE [w |-> w, ret |-> "Found"]

\* search: the iteration ends after a backup
BackupThenBound(r, step_count, max_step) ==
    IF r.ret = "None" THEN r ELSE StepBound(r.w, step_count, max_step)

\* search: Found is returned; reduce_max lowers the cap below the count
FoundResult(w, checked) ==
    IF w.reduce_max
    THEN IF MinCellCount(w) = 0
         THEN IF checked THEN [w |-> w, ret |-> "Panic"]
              ELSE [w |-> [w EXCEPT !.max_cell_count = UsizeMax], ret |-> "Found"]
         ELSE [w |-> [w EXCEPT !.max_cell_count = MinCellCount(w) - 1],
               ret |-> "Found"]
    ELSE [w |-> w, ret |-> "Found"]

\* search: decide has returned `d`
SearchDecided(w, d, step_count, max_step, checked) ==
    IF d.res = "Some"
    THEN IF d.err # Ok
         THEN BackupThenBound(BackupOrNone(backup(d.w)), step_count, max_step)
         ELSE StepBound(d.w, step_count, max_step)
    ELSE IF nontrivial(w) THEN FoundResult(w, checked)
    ELSE BackupThenBound(BackupOrNone(backup(w)), step_count, max_step)

\* the body of the loop of World::search, entered when go returned true
SearchBody(w, step_count, max_step, coin, checked) ==
    SearchDecided(w, decide(w, coin), step_count, max_step, checked)

\* go with a cell-count conflict of proceed taken for success
GoStep_skips_cell_count(w) ==
    LET r == proceed(w)
    IN  IF r.err = Ok \/ r.err.tag = "CellCount" THEN [w |-> r.w, err |-> Ok]
        ELSE [w |-> [r.w EXCEPT !.conflicts = @ + 1], err |-> r.err]

\* go that reports a conflict where proceed met none
GoStep_spurious_conflict(w) ==
    LET r == proceed(w)
    IN  IF r.err = Ok /\ r.w.level > 1
        THEN [w |-> [r.w EXCEPT !.conflicts = @ + 1], err |-> ReasonCellCount]
        ELSE IF r.err = Ok THEN [w |-> r.w, err |-> Ok]
        ELSE [w |-> [r.w EXCEPT !.conflicts = @ + 1], err |-> r.err]

\* go: what proceed returned, a conflict counted
GoResult(r) ==
    IF r.err = Ok THEN [w |-> r.w, err |-> Ok]
    ELSE [w |-> [r.w EXCEPT !.conflicts = @ + 1], err |-> r.err]

\* one round of the loop of World::go: proceed, and count a conflict
GoStep(w) == GoResult(proceed(w))

\* the loop of World::search for search(None) with NewState::Choose, run
\* until it returns
RECURSIVE SearchLoop(_)
\* the loop after analyze
LoopAnalyzed(a) ==
    IF a.ok THEN SearchLoop(a.w) ELSE [w |-> a.w, ret |-> "None"]

\* the loop after its body
LoopBody(b) ==
    IF b.ret = "Continue" THEN SearchLoop(b.w) ELSE b

\* the loop after go's call of proceed
LoopGo(g) ==
    IF g.err # Ok THEN LoopAnalyzed(analyze(g.w, g.err))
    ELSE LoopBody(SearchBody(g.w, 0, NoneVal, Alive, FALSE))

SearchLoop(w) == LoopGo(GoStep(w))

\* search(None) once the entry test is made
SearchEntered(e) ==
    IF e.ret = "None" THEN e ELSE SearchLoop(e.w)

\* World::search(None) as one uninterrupted call
search(w) == SearchEntered(SearchEnter(w))

(***************************************************************************)
(* Search::set_max_cell_count (search.rs).                                 *)
(***************************************************************************)
RECURSIVE CapLoop(_)
\* set_max_cell_count: backup has returned inside the loop
CapBackup(b) == IF b.ok THEN CapLoop(b.w) ELSE b.w

\* the loop of set_max_cell_count: back up while the smallest generation
\* holds more live cells than the cap
CapLoop(w) ==
    IF w.max_cell_count # NoneVal /\ MinCellCount(w) > w.max_cell_count
    THEN CapBackup(backup(w))
    ELSE w

\* set_max_cell_count that only stores the cap
set_max_cell_count_only(w, max_cell_count) ==
    [w EXCEPT !.max_cell_count = max_cell_count]

\* Search::set_max_cell_count
set_max_cell_count(w, max_cell_count) ==
    CapLoop([w EXCEPT !.max_cell_count = max_cell_count])

(***************************************************************************)
(* Snapshots (save.rs).                                                    *)
(***************************************************************************)
\* SetCell::ser
SetCellSer(w, cell) ==
    [coord |-> cell, state |-> w.state[cell], reason |-> w.reason[cell]]

\* World::ser
ser(w) ==
    [config |-> w.config,
     conflicts |-> w.conflicts,
     set_stack |-> [k \in 1 .. Len(w.set_stack) |-> SetCellSer(w, w.set_stack[k])],
     check_index |-> w.check_index,
     search_index |-> w.search_index]

\* World::find_cell of a coordinate: None (NoCell) when it names no cell
FindCoord(cfg, coord) == IF coord \in Cells(cfg) THEN coord ELSE NoCell

\* Err(Error::SetCellError(coord))
SetCellError(coord) == [ok |-> FALSE, coord |-> coord]

\* a replay that takes every entry that names a cell, whatever the cell
\* holds already
ReplayEntry_no_compare(w, stack, k, cell) ==
    IF cell = NoCell THEN SetCellError(stack[k].coord)
    ELSE IF w.state[cell] # Unknown THEN [ok |-> TRUE, w |-> w]
    ELSE [ok |-> TRUE,
          w |-> set_cell(w, cell, stack[k].state, stack[k].reason).w]

\* world_with_rule: the k-th saved entry, its cell looked up; the result
\* is an error, or the world to go on with
ReplayEntry(w, stack, k, cell) ==
    IF cell = NoCell THEN SetCellError(stack[k].coord)
    ELSE IF w.state[cell] # Unknown
    THEN IF w.state[cell] # stack[k].state THEN SetCellError(stack[k].coord)
         ELSE [ok |-> TRUE, w |-> w]
    ELSE [ok |-> TRUE,
          w |-> set_cell(w, cell, stack[k].state, stack[k].reason).w]

\* the loop of world_with_rule over the saved stack
RECURSIVE Replay(_, _, _)
\* world_with_rule: the k-th entry is done
ReplayNext(r, stack, k) ==
    IF r.ok THEN Replay(r.w, stack, k + 1) ELSE r

Replay(w, stack, k) ==
    IF k > Len(stack) THEN [ok |-> TRUE, w |-> w]
    ELSE ReplayNext(ReplayEntry(w, stack, k, FindCoord(w.config, stack[k].coord)),
                    stack, k)

\* world_with_rule that leaves the counters as World::new set them
Restored_fresh_counters(r, s) == r

\* world_with_rule: the counters of the snapshot are copied
Restored(r, s) ==
    IF r.ok
    THEN [ok |-> TRUE,
          w |-> [r.w EXCEPT !.conflicts = s.conflicts,
                            !.check_index = s.check_index,
                            !.search_index = s.search_index]]
    ELSE r

\* WorldSer::world_with_rule
world_with_rule(s) ==
    Restored(Replay(NewWorld(s.config, FALSE), s.set_stack, 1), s)

(***************************************************************************)
(* The state machine.                                                      *)
(***************************************************************************)
\* calls of search that may return Found or None before the model stops
MaxResults == 2

\* step_count is only ever compared with max_step, so it is counted up to
\* one more than the largest bound a caller passes
StepCap == MaxStepArg + 1

\* the largest width and height of the Configs a caller builds
MaxSize == 3

\* the largest |dx| and |dy| of the Configs a caller builds
MaxShift == 1

VARIABLES
    world,         \* the World
    pc,            \* where the running call of search stands
    step_count,    \* step_count of the running call
    max_step,      \* max_step of the running call
    status,        \* the Status the last call returned
    confl,         \* the conflict go hands to analyze
    n_results,     \* calls that returned Found or None so far
    step_bounds,   \* the max_step arguments of the calls so far
    found,         \* the patterns the calls so far returned with Found
    jumped,        \* analyze took its backjump branch at least once
    branch,        \* the branch the call of analyze just made ended in
    cap_set,       \* the caller has called set_max_cell_count
    snapshot,      \* <<s>> once a WorldSer s is at hand, else <<>>
    restored,      \* <<r>> once WorldSer::world has returned r, else <<>>
    config,        \* the Config the caller holds
    order,         \* <<o>> once auto_search_order has returned o, else <<>>
    built,         \* <<r>> once set_world has ended with r, else <<>>
    app,           \* the App of the web page
    msg            \* <<m>> once App::update has handled the message m

vars == <<world, pc, step_count, max_step, status, confl, n_results,
          step_bounds, found, jumped, branch, cap_set, snapshot, restored,
          config, order, built, app, msg>>

\* what only the caller's other operations change
client == <<cap_set, snapshot, restored, config, order, built, app, msg>>

Cfg(d, dx, dy, tr, sy, so, ns, mc, nef) ==
    [width |-> d[1], height |-> d[2], period |-> d[3], dx |-> dx, dy |-> dy,
     transform |-> tr, symmetry |-> sy, search_order |-> so,
     new_state |-> ns, max_cell_count |-> mc, non_empty_front |-> nef,
     rule_string |-> "B3/S23"]

\* still lifes in a 3 x 3 world under every cap and front constraint
StillLifeConfigs ==
    { Cfg(<<3, 3, 1>>, 0, 0, "Id", "C1", "Auto", ns, mc, nef) :
        ns \in {"Alive", "Dead"}, mc \in {NoneVal, 0, MaxCap \div 2, MaxCap},
        nef \in BOOLEAN }

\* a period, a translation, a transformation, a symmetry, a random choice
VariedConfigs ==
    { Cfg(<<2, 2, 2>>, 0, 0, "Id", "C1", "RowFirst", "Dead", NoneVal, FALSE),
      Cfg(<<3, 3, 1>>, 1, 0, "Id", "C1", "Auto", "Alive", NoneVal, FALSE),
      Cfg(<<3, 3, 1>>, 0, 0, "F|", "C1", "RowFirst", "Dead", NoneVal, FALSE),
      Cfg(<<3, 3, 1>>, 0, 0, "Id", "D2|", "Auto", "Alive", NoneVal, TRUE),
      Cfg(<<2, 2, 1>>, 0, 0, "Id", "C1", "Auto", "Random", NoneVal, FALSE) }

\* a world in which analyze reaches its backjump
BackjumpConfigs ==
    { Cfg(<<4, 4, 1>>, -1, 0, "Id", "D2\\", "ColumnFirst", "Dead", NoneVal, FALSE) }

Configs == StillLifeConfigs \cup VariedConfigs \cup BackjumpConfigs

(***************************************************************************)
(* The web page (app.rs).                                                  *)
(***************************************************************************)
\* the largest period of the Configs the page is given
MaxPeriod == 3

\* Config::default
ConfigDefault == Cfg(<<16, 16, 1>>, 0, 0, "Id", "C1", "Auto", "Alive", NoneVal, TRUE)

\* the Configs the settings panel applies and the worker reports
AppConfigs == {[ConfigDefault EXCEPT !.period = p] : p \in 1 .. MaxPeriod}

\* Status
Statuses == {"Initial", "Found", "None", "Searching", "Paused"}

\* the requests to the worker; a request without a generation or a Config
\* has NoneVal and <<>> in their places
Request(tag) == [tag |-> tag, gen |-> NoneVal, config |-> <<>>]

RequestDisplayGen(gen) == [tag |-> "DisplayGen", gen |-> gen, config |-> <<>>]

RequestSetWorld(cfg) == [tag |-> "SetWorld", gen |-> NoneVal, config |-> <<cfg>>]

\* the messages of the page; what a message does not carry is "", <<>>, 0
\* or FALSE
Message(tag, response, st, cfg, text, cells, ok) ==
    [tag |-> tag, response |-> response, status |-> st, config |-> cfg,
     world |-> text, cells |-> cells, ok |-> ok]

Msg(tag) == Message(tag, "", "", <<>>, "", 0, FALSE)

\* App::create; interval_task and reader_task are TRUE when they are Some,
\* sent, alert, download and render are what the last update sent to the
\* worker, showed, downloaded and returned
create ==
    [config |-> ConfigDefault, status |-> "Initial", gen |-> 0, cells |-> 0,
     world |-> "INIT_WORLD", max_partial |-> FALSE,
     interval_task |-> FALSE, reader_task |-> FALSE,
     sent |-> <<>>, alert |-> FALSE, download |-> FALSE, render |-> FALSE]

\* App::start_job
start_job(a) == [a EXCEPT !.interval_task = TRUE]

\* App::stop_job
stop_job(a) == [a EXCEPT !.interval_task = FALSE]

\* an arm of update that sends `request` and returns `render`
Sends(a, request, render) ==
    [a EXCEPT !.sent = <<request>>, !.render = render,
              !.alert = FALSE, !.download = FALSE]

\* an arm of update that sends nothing and returns `render`
Quiet(a, render) ==
    [a EXCEPT !.sent = <<>>, !.render = render,
              !.alert = FALSE, !.download = FALSE]

\* what Tick and SetMaxPartial ask the worker to show
ShowRequest(a) ==
    IF a.max_partial THEN Request("MaxPartial") ELSE RequestDisplayGen(a.gen)

\* Msg::Tick
UpdateTick(a) == Sends(a, ShowRequest(a), FALSE)

\* Msg::IncGen
UpdateIncGen(a) ==
    IF a.gen < a.config.period - 1
    THEN Sends([a EXCEPT !.gen = @ + 1], RequestDisplayGen(a.gen + 1), TRUE)
    ELSE Quiet(a, FALSE)

\* Msg::DecGen
UpdateDecGen(a) ==
    IF a.gen > 0
    THEN Sends([a EXCEPT !.gen = @ - 1], RequestDisplayGen(a.gen - 1), TRUE)
    ELSE Quiet(a, FALSE)

\* Msg::Load: the file is handed to a reader
UpdateLoad(a) == Quiet([a EXCEPT !.reader_task = TRUE], FALSE)

\* Msg::SendFile: the file parses as a WorldSer, or it does not
UpdateSendFile(a, ok) ==
    IF ok THEN Sends(a, Request("Load"), FALSE)
    ELSE [Quiet(a, FALSE) EXCEPT !.alert = TRUE]

\* Msg::SetMaxPartial
UpdateSetMaxPartial(a) ==
    Sends([a EXCEPT !.max_partial = ~@],
          ShowRequest([a EXCEPT !.max_partial = ~@]), TRUE)

\* Msg::Apply
UpdateApply(a, cfg) ==
    Sends([a EXCEPT !.config = cfg, !.gen = 0], RequestSetWorld(cfg), TRUE)

\* UpdateStatus that starts the timer whatever the status
UpdateStatus_always_starts(a, st) ==
    [start_job(a) EXCEPT !.status = st]

\* Response::UpdateStatus: the timer follows the change of status
StatusChanged(a, st) ==
    IF a.status = "Searching" THEN stop_job(a)
    ELSE IF st = "Searching" THEN start_job(a)
    ELSE a

\* Response::UpdateStatus
UpdateStatus(a, st) ==
    IF a.status # st
    THEN [StatusChanged(a, st) EXCEPT !.status = st]
    ELSE a

\* Msg::DataReceived
DataReceived(a, m) ==
    CASE m.response = "UpdateWorld" ->
            Quiet([a EXCEPT !.world = m.world, !.cells = m.cells], TRUE)
      [] m.response = "UpdateConfig" ->
            Quiet([a EXCEPT !.config = m.config[1]], TRUE)
      [] m.response = "UpdateStatus" ->
            Quiet(UpdateStatus(a, m.status), TRUE)
      [] m.response = "Error" -> [Quiet(a, TRUE) EXCEPT !.alert = TRUE]
      [] m.response = "Save" -> [Quiet(a, TRUE) EXCEPT !.download = TRUE]

\* App::update
update(a, m) ==
    CASE m.tag = "Tick" -> UpdateTick(a)
      [] m.tag = "IncGen" -> UpdateIncGen(a)
      [] m.tag = "DecGen" -> UpdateDecGen(a)
      [] m.tag = "Start" -> Sends(a, Request("Start"), FALSE)
      [] m.tag = "Pause" -> Sends(a, Request("Pause"), FALSE)
      [] m.tag = "Reset" -> Sends(a, RequestSetWorld(a.config), FALSE)
      [] m.tag = "Save" -> Sends(a, Request("Save"), FALSE)
      [] m.tag = "Load" -> UpdateLoad(a)
      [] m.tag = "SendFile" -> UpdateSendFile(a, m.ok)
      [] m.tag = "SetMaxPartial" -> UpdateSetMaxPartial(a)
      [] m.tag = "Apply" -> UpdateApply(a, m.config[1])
      [] m.tag = "DataReceived" -> DataReceived(a, m)
      [] m.tag = "None" -> Quiet(a, FALSE)

\* the freshly built worlds; reduce_max is tried where no cap is configured
Worlds ==
    {NewWorld(cfg, FALSE) : cfg \in Configs}
        \cup {NewWorld(cfg, TRUE) : cfg \in {c \in Configs : c.max_cell_count = NoneVal}}

Init ==
    /\ world \in Worlds
    /\ pc = "idle"
    /\ step_count = 0
    /\ max_step = NoneVal
    /\ status = "Initial"
    /\ confl = Ok
    /\ n_results = 0
    /\ step_bounds = {}
    /\ found = {}
    /\ jumped = FALSE
    /\ branch = "none"
    /\ cap_set = FALSE
    /\ snapshot = <<>>
    /\ restored = <<>>
    /\ config = world.config
    /\ order = <<>>
    /\ built = <<>>
    /\ app = create
    /\ msg = <<>>

\* search has returned `st` and no call is running
Returned(st) == pc = "idle" /\ status = st

\* the call returns `ret`
Return(ret, w) ==
    /\ pc' = "idle"
    /\ status' = ret
    /\ n_results' = IF ret \in {"Found", "None"} THEN n_results + 1 ELSE n_results
    /\ found' = IF ret = "Found" THEN found \cup {w.state} ELSE found

\* the call starts its loop, or returns None at once
Entered(e) ==
    /\ world' = e.w
    /\ IF e.ret = "None" THEN Return("None", e.w)
       ELSE pc' = "go" /\ UNCHANGED <<status, n_results, found>>

\* a call of search(max_step) is made
SearchCall ==
    /\ pc = "idle"
    /\ snapshot = <<>>
    /\ \E m \in {NoneVal} \cup (0 .. MaxStepArg) :
        /\ max_step' = m
        /\ step_bounds' = step_bounds \cup {m}
    /\ step_count' = 0
    /\ Entered(SearchEnter(world))
    /\ branch' = "none"
    /\ UNCHANGED <<confl, jumped>>
    /\ UNCHANGED client

\* a caller calls search(max_step), until MaxResults calls have returned
\* Found or None
Search ==
    /\ n_results < MaxResults
    /\ SearchCall

\* a caller goes on calling search(max_step) until a call returns None,
\* and calls once more after that
SearchAgain ==
    /\ n_results <= Cardinality(found) + 1
    /\ SearchCall

\* proceed has returned: on to the loop body, or to analyze
Proceeded(g) ==
    /\ world' = g.w
    /\ confl' = g.err
    /\ pc' = IF g.err = Ok THEN "decide" ELSE "analyze"

\* go: proceed once
Go ==
    /\ pc = "go"
    /\ step_count' = IF step_count < StepCap THEN step_count + 1 ELSE step_count
    /\ Proceeded(GoStep(world))
    /\ branch' = "none"
    /\ UNCHANGED <<max_step, status, n_results, step_bounds, found, jumped>>
    /\ UNCHANGED client

\* analyze has returned: go goes on, or search returns None
Analyzed(a) ==
    /\ world' = a.w
    /\ jumped' = (jumped \/ a.via = "uip")
    /\ branch' = a.via
    /\ IF a.hang THEN pc' = "hang" /\ UNCHANGED <<status, n_results, found>>
       ELSE IF a.ok THEN pc' = "go" /\ UNCHANGED <<status, n_results, found>>
       ELSE Return("None", a.w)

\* go: analyze the conflict proceed met
Analyze ==
    /\ pc = "analyze"
    /\ Analyzed(analyze(world, confl))
    /\ confl' = Ok
    /\ UNCHANGED <<step_count, max_step, step_bounds>>
    /\ UNCHANGED client

\* the loop body is done: the loop goes on, or search returns
BodyDone(b) ==
    /\ world' = b.w
    /\ IF b.ret = "Continue"
       THEN pc' = "go" /\ UNCHANGED <<status, n_results, found>>
       ELSE IF b.ret = "Panic"
       THEN pc' = "panic" /\ UNCHANGED <<status, n_results, found>>
       ELSE Return(b.ret, b.w)

\* the body of the loop of search; `coin` is what rand::random() would
\* give, `checked` whether the build checks arithmetic overflow
Decide ==
    /\ pc = "decide"
    /\ \E coin \in {Alive, Dead}, checked \in BOOLEAN :
        BodyDone(SearchBody(world, step_count, max_step, coin, checked))
    /\ branch' = "none"
    /\ UNCHANGED <<step_count, max_step, confl, step_bounds, jumped>>
    /\ UNCHANGED client

\* a caller calls set_max_cell_count between two calls of search, once
SetMaxCellCount ==
    /\ pc = "idle"
    /\ snapshot = <<>>
    /\ ~cap_set
    /\ cap_set' = TRUE
    /\ \E m \in {NoneVal} \cup (0 .. MaxCap) :
          world' = set_max_cell_count(world, m)
    /\ UNCHANGED <<pc, step_count, max_step, status, confl, n_results,
                   step_bounds, found, jumped, branch, snapshot, restored,
                   config, order, built,
                   app, msg>>

\* the coordinates an edited snapshot entry may name: the first saved
\* cell again, or a position outside the world
EditCoords(s) ==
    {<<s.config.width, 0, 0>>} \cup
    (IF s.set_stack = <<>> THEN {} ELSE {s.set_stack[1].coord})

\* the snapshots that reach WorldSer::world: the one World::ser returned,
\* and that snapshot with the last entry of its set_stack edited
Snapshots(s) ==
    {s} \cup
    {[s EXCEPT !.set_stack[k] = [@ EXCEPT !.coord = c, !.state = st]] :
        k \in {Len(s.set_stack)} \ {0}, c \in EditCoords(s), st \in {Alive, Dead}}

\* a caller saves the world between two calls of search
Save ==
    /\ pc = "idle"
    /\ snapshot = <<>>
    /\ \E s \in Snapshots(ser(world)) : snapshot' = <<s>>
    /\ UNCHANGED <<world, pc, step_count, max_step, status, confl, n_results,
                   step_bounds, found, jumped, branch, cap_set, restored,
                   config, order, built,
                   app, msg>>

\* a caller restores a world from the snapshot
Restore ==
    /\ snapshot # <<>>
    /\ restored = <<>>
    /\ restored' = <<world_with_rule(snapshot[1])>>
    /\ UNCHANGED <<world, pc, step_count, max_step, status, confl, n_results,
                   step_bounds, found, jumped, branch, cap_set, snapshot,
                   config, order, built,
                   app, msg>>

Next == Search \/ Go \/ Analyze \/ Decide

Spec == Init /\ [][Next]_vars

\* the worlds whose callers also change the cap and save and restore
\* snapshots: still lifes with a front that must not be empty, a
\* symmetric world, and a world of random decisions
SnapConfigs ==
    { Cfg(<<3, 3, 1>>, 0, 0, "Id", "C1", "Auto", "Dead", NoneVal, TRUE),
      Cfg(<<3, 3, 1>>, 0, 0, "Id", "D2|", "Auto", "Alive", NoneVal, TRUE),
      Cfg(<<2, 2, 1>>, 0, 0, "Id", "C1", "Auto", "Random", NoneVal, FALSE) }

SnapInit ==
    /\ Init
    /\ world \in {NewWorld(cfg, FALSE) : cfg \in SnapConfigs}

SnapNext == Next \/ SetMaxCellCount \/ Save \/ Restore

\* searches interleaved with set_max_cell_count, ser and WorldSer::world
SnapSpec == SnapInit /\ [][SnapNext]_vars

\* the worlds of a caller who asks for one result after the other: the
\* decisions are not random and the cap stays as configured
RepeatInit ==
    /\ Init
    /\ world.new_state # "Random"
    /\ ~world.reduce_max

RepeatNext == SearchAgain \/ Go \/ Analyze \/ Decide

\* the caller may call again
MayCallAgain ==
    pc = "idle" /\ snapshot = <<>> /\ n_results <= Cardinality(found) + 1

\* calls of search repeated up to the first None and once beyond it; a
\* step that stays possible is taken in the end (weak fairness of each
\* action, whose enabling condition is written out)
RepeatSpec ==
    /\ RepeatInit /\ [][RepeatNext]_vars
    /\ <>[]MayCallAgain => []<><<SearchAgain>>_vars
    /\ <>[](pc = "go") => []<><<Go>>_vars
    /\ <>[](pc = "analyze") => []<><<Analyze>>_vars
    /\ <>[](pc = "decide") => []<><<Decide>>_vars

\* Config::set_world: the only error is a rule string that does not parse
set_world(cfg) ==
    IF ParseRule(cfg.rule_string)
    THEN [ok |-> TRUE, world |-> <<NewWorld(cfg, FALSE)>>]
    ELSE [ok |-> FALSE, world |-> <<>>]

\* a caller asks for the search order of its Config
AutoSearchOrder ==
    /\ order = <<>>
    /\ order' = <<auto_search_order(config)>>
    /\ UNCHANGED <<world, pc, step_count, max_step, status, confl, n_results,
                   step_bounds, found, jumped, branch, cap_set, snapshot, restored,
                   config, built,
                   app, msg>>

\* a caller builds a world from its Config
SetWorld ==
    /\ built = <<>>
    /\ built' = <<set_world(config)>>
    /\ UNCHANGED <<world, pc, step_count, max_step, status, confl, n_results,
                   step_bounds, found, jumped, branch, cap_set, snapshot, restored,
                   config, order,
                   app, msg>>

\* Configs that differ in what the search order depends on
OrderConfigs ==
    { Cfg(<<w, h, 1>>, dx, dy, "Id", sy, so, "Alive", NoneVal, TRUE) :
        w \in 1 .. MaxSize, h \in 1 .. MaxSize,
        dx \in -MaxShift .. MaxShift, dy \in -MaxShift .. MaxShift,
        sy \in {"C1", "D2-", "D2|", "D4+"},
        so \in {"Auto", "RowFirst", "ColumnFirst"} }

\* Configs that differ in what the construction of the world depends on
WorldConfigs ==
    { [Cfg(<<w, h, p>>, 0, 0, tr, sy, "Auto", "Alive", NoneVal, TRUE)
          EXCEPT !.rule_string = rs] :
        w \in -1 .. MaxSize - 1, h \in -1 .. MaxSize - 1, p \in 0 .. 1,
        tr \in Transforms, sy \in Symmetries,
        rs \in {"B3/S23", "B3/S23/"} }

\* the caller holds a Config, and no world is built yet
ConfigInit ==
    /\ config \in OrderConfigs \cup WorldConfigs
    /\ world = <<>>
    /\ pc = "idle"
    /\ step_count = 0
    /\ max_step = NoneVal
    /\ status = "Initial"
    /\ confl = Ok
    /\ n_results = 0
    /\ step_bounds = {}
    /\ found = {}
    /\ jumped = FALSE
    /\ branch = "none"
    /\ cap_set = FALSE
    /\ snapshot = <<>>
    /\ restored = <<>>
    /\ order = <<>>
    /\ built = <<>>
    /\ app = create
    /\ msg = <<>>

ConfigNext == AutoSearchOrder \/ SetWorld

\* what a caller does with a Config before any search
ConfigSpec == ConfigInit /\ [][ConfigNext]_vars

\* everything but the page
engine == <<world, pc, step_count, max_step, status, confl, n_results,
            step_bounds, found, jumped, branch, cap_set, snapshot, restored,
            config, order, built>>

\* App::update handles the message m
Handled(m) ==
    /\ msg' = <<m>>
    /\ app' = update(app, m)

\* the interval task ticks
Tick ==
    /\ Handled(Msg("Tick"))
    /\ UNCHANGED engine

\* the buttons of the page
IncGen ==
    /\ Handled(Msg("IncGen"))
    /\ UNCHANGED engine

DecGen ==
    /\ Handled(Msg("DecGen"))
    /\ UNCHANGED engine

StartPause ==
    /\ \E tag \in {"Start", "Pause"} : Handled(Msg(tag))
    /\ UNCHANGED engine

Reset ==
    /\ Handled(Msg("Reset"))
    /\ UNCHANGED engine

SaveLoad ==
    /\ \E tag \in {"Save", "Load"} : Handled(Msg(tag))
    /\ UNCHANGED engine

SetMaxPartial ==
    /\ Handled(Msg("SetMaxPartial"))
    /\ UNCHANGED engine

\* the reader has read the file
SendFile ==
    /\ app.reader_task
    /\ \E ok \in BOOLEAN :
          Handled(Message("SendFile", "", "", <<>>, "", 0, ok))
    /\ UNCHANGED engine

\* the settings panel applies a Config
Apply ==
    /\ \E cfg \in AppConfigs :
          Handled(Message("Apply", "", "", <<cfg>>, "", 0, FALSE))
    /\ UNCHANGED engine

\* the worker reports the world it shows
ReceiveWorld ==
    /\ \E cells \in 0 .. 1 :
          Handled(Message("DataReceived", "UpdateWorld", "", <<>>,
                          IF cells = 0 THEN "INIT_WORLD" ELSE "pattern",
                          cells, FALSE))
    /\ UNCHANGED engine

\* the worker reports the Config of the world it has loaded
ReceiveConfig ==
    /\ \E cfg \in AppConfigs :
          Handled(Message("DataReceived", "UpdateConfig", "", <<cfg>>, "", 0,
                          FALSE))
    /\ UNCHANGED engine

\* the worker reports a status
ReceiveStatus ==
    /\ \E st \in Statuses :
          Handled(Message("DataReceived", "UpdateStatus", st, <<>>, "", 0,
                          FALSE))
    /\ UNCHANGED engine

\* the worker reports an error or hands over a snapshot
ReceiveOther ==
    /\ \E response \in {"Error", "Save"} :
          Handled(Message("DataReceived", response, "", <<>>, "", 0, FALSE))
    /\ UNCHANGED engine

\* a message that asks for nothing
NoneMsg ==
    /\ Handled(Msg("None"))
    /\ UNCHANGED engine

\* the page before any message: no world has been built by a caller
AppInit ==
    /\ config = ConfigDefault
    /\ world = <<>>
    /\ pc = "idle"
    /\ step_count = 0
    /\ max_step = NoneVal
    /\ status = "Initial"
    /\ confl = Ok
    /\ n_results = 0
    /\ step_bounds = {}
    /\ found = {}
    /\ jumped = FALSE
    /\ branch = "none"
    /\ cap_set = FALSE
    /\ snapshot = <<>>
    /\ restored = <<>>
    /\ order = <<>>
    /\ built = <<>>
    /\ app = create
    /\ msg = <<>>

AppNext ==
    \/ Tick \/ IncGen \/ DecGen \/ StartPause \/ Reset \/ SaveLoad
    \/ SetMaxPartial \/ SendFile \/ Apply \/ ReceiveWorld \/ ReceiveConfig
    \/ ReceiveStatus \/ ReceiveOther \/ NoneMsg

\* the page under any sequence of messages
AppSpec == AppInit /\ [][AppNext]_vars


\* a call of search runs on its own: go, analyze and the loop body are
\* each taken when they stay possible.  This is weak fairness of Go, Analyze
\* and Decide, written out with their enabling conditions (pc = "go",
\* pc = "analyze", pc = "decide"; each of them changes pc)
FairSpec ==
    /\ Spec
    /\ <>[](pc = "go") => []<><<Go>>_vars
    /\ <>[](pc = "analyze") => []<><<Analyze>>_vars
    /\ <>[](pc = "decide") => []<><<Decide>>_vars

(***************************************************************************)
(* Properties.                                                             *)
(***************************************************************************)
\* the state of position (x, y) of generation t; out of range is background
At(w, x, y, t) ==
    IF InRange(w.config, x, y) THEN w.state[<<x, y, t>>] ELSE Dead

LiveNeighbours(w, x, y, t) ==
    Cardinality({i \in 0 .. 7 :
        At(w, x + NbhdOffset(i)[1], y + NbhdOffset(i)[2], t) = Alive})

\* what the rule makes of position (x, y) of generation t
Evolved(w, x, y, t) == Transition(At(w, x, y, t), LiveNeighbours(w, x, y, t))

\* generation 0 mapped by the transformation and then translated by
\* (dx, dy), read at position (x, y)
Gen0Mapped(w, x, y) ==
    LET cfg == w.config
        q == ApplyTransform(cfg, InverseTransform(cfg.transform), x - cfg.dx, y - cfg.dy)
    IN  At(w, q[1], q[2], 0)

\* the committed pattern is complete and obeys the rule in every generation
ValidPattern(w) ==
    \A c \in Cells(w.config) :
        /\ w.state[c] # Unknown
        /\ Evolved(w, c[1], c[2], c[3]) =
              IF c[3] < w.config.period - 1 THEN At(w, c[1], c[2], c[3] + 1)
              ELSE Gen0Mapped(w, c[1], c[2])

\* C1: whenever search returns Found, every cell is known, the rule takes
\* each generation to the next, and the last generation to generation 0
\* transformed and translated
C1_FoundIsSound == Returned("Found") => ValidPattern(world)

\* C1 witness: a Found pattern of period 2 or with a transformation
C1_Witness ==
    /\ Returned("Found")
    /\ world.config.period > 1 \/ world.config.transform # "Id"
    /\ ValidPattern(world)

\* every call so far was search(None)
AllUnbounded == step_bounds \subseteq {NoneVal}

\* the live cells of generation 0 of an assignment
Gen0Alive(cfg, f) == {c \in Cells(cfg) : c[3] = 0 /\ f[c] = Alive}

\* the complete assignments that satisfy every constraint of the world:
\* symmetry, rule, period, translation, transformation, the cap in force,
\* the non-empty front, and that are not the background
Solutions(w) ==
    LET cfg == w.config
    IN  {f \in [Cells(cfg) -> {Alive, Dead}] :
            /\ \E c \in Cells(cfg) : f[c] # background(c)
            /\ \A c \in Cells(cfg) : \A s \in symSet(cfg, c) : f[s] = f[c]
            /\ w.max_cell_count # NoneVal =>
                  Cardinality(Gen0Alive(cfg, f)) <= w.max_cell_count
            /\ w.non_empty_front =>
                  \E c \in Cells(cfg) : is_front(cfg, c) /\ f[c] = Alive
            /\ ValidPattern([w EXCEPT !.state = f])}

\* C2: when a run of search(None) calls from the freshly built world
\* returns None, every pattern that satisfies all the constraints was
\* returned by an earlier call; the first call returns None only if no
\* such pattern exists
C2_NoneIsComplete ==
    (Returned("None") /\ AllUnbounded) => Solutions(world) \subseteq found

\* C2 witness: the first call backtracked over conflicts and returned None
\* in a world that has no solution
C2_Witness ==
    /\ Returned("None")
    /\ AllUnbounded
    /\ n_results = 1
    /\ world.conflicts > 0
    /\ Solutions(world) = {}

\* C3: a call search(None) that is running eventually returns, and what
\* it returns is Found or None; the loops of go, analyze and backup and the
\* backjump of analyze never keep it from returning
C3_SearchTerminates ==
    (pc # "idle" /\ max_step = NoneVal) ~>
        (pc = "idle" /\ status \in {"Found", "None"})

\* C3 witness: calls of search(None) that met conflicts and took the
\* backjump of analyze have returned
C3_Witness ==
    /\ pc = "idle"
    /\ status \in {"Found", "None"}
    /\ AllUnbounded
    /\ jumped
    /\ world.conflicts > 0

\* C4: with NewState::Choose, calling search(Some(m)) from the freshly
\* built world until the status is no longer Searching ends with the
\* status and the cell states of a single call search(None)
C4_SuspendResume ==
    (/\ pc = "idle"
     /\ status \in {"Found", "None"}
     /\ n_results = 1
     /\ Cardinality(step_bounds) = 1
     /\ world.new_state # "Random")
    => LET r == search(NewWorld(world.config, world.reduce_max))
       IN  status = r.ret /\ world.state = r.w.state

\* the first call was search(None) and has returned
FirstCallReturned ==
    pc = "idle" /\ n_results = 1 /\ step_bounds = {NoneVal}

\* C5: with NewState::Choose nothing but the configuration and the calls
\* decides a run: the loop body does the same whatever rand::random()
\* would give, and a first call search(None) leaves the world (stack,
\* check_index, search_index, conflicts, cell states) and returns the
\* status of any other such call from the same configuration
C5_Deterministic ==
    world.new_state # "Random" =>
        /\ pc = "decide" =>
              \A coin \in {Alive, Dead} :
                  SearchBody(world, step_count, max_step, coin, FALSE)
                      = SearchBody(world, step_count, max_step, Alive, FALSE)
        /\ FirstCallReturned =>
              LET r == search(NewWorld(world.config, world.reduce_max))
              IN  world = r.w /\ status = r.ret

\* C5 witness: a first call with Choose that decided cells, met conflicts
\* and returned Found
C5_Witness ==
    /\ FirstCallReturned
    /\ world.new_state # "Random"
    /\ status = "Found"
    /\ world.conflicts > 0
    /\ world.level > 0

\* C6: Found is returned only with no unknown cell left and some cell
\* that differs from its background
C6_FoundIsNontrivial ==
    Returned("Found") =>
        /\ \A c \in Cells(world.config) : world.state[c] # Unknown
        /\ \E c \in Cells(world.config) : world.state[c] # background(c)

\* C6 witness: a call returned Found after it had backed up
C6_Witness ==
    /\ Returned("Found")
    /\ world.conflicts > 0
    /\ get_unknown(world, 0) = NoneVal
    /\ nontrivial(world)

\* the still-life scenario: W = H = 3, p = 1, no translation, B3/S23,
\* max_cell_count = Some(0)
ScenarioCapZero(w) ==
    /\ w.config.width = 3 /\ w.config.height = 3 /\ w.config.period = 1
    /\ w.config.dx = 0 /\ w.config.dy = 0
    /\ w.config.transform = "Id" /\ w.config.symmetry = "C1"
    /\ w.config.max_cell_count = 0

\* C7 as stated: in the scenario with non_empty_front = false, search(None)
\* returns Found with every cell Dead and cell_count(0) = 0
C7_EmptyPatternFound ==
    (ScenarioCapZero(world) /\ ~world.non_empty_front /\ FirstCallReturned) =>
        /\ status = "Found"
        /\ \A c \in Cells(world.config) : world.state[c] = Dead
        /\ world.cell_count[0] = 0

\* C7 amended: in the scenario with non_empty_front = false, search(None)
\* returns None, the all-dead assignment being trivial; it leaves every
\* cell unknown and cell_count(0) = 0
C7_EmptyPatternRejected ==
    (ScenarioCapZero(world) /\ ~world.non_empty_front /\ FirstCallReturned) =>
        /\ status = "None"
        /\ \A c \in Cells(world.config) : world.state[c] = Unknown
        /\ world.cell_count[0] = 0

\* C7 witness: the first search(None) of the scenario has returned
C7_Witness ==
    /\ ScenarioCapZero(world)
    /\ ~world.non_empty_front
    /\ FirstCallReturned
    /\ status = "None"

\* C8: a call that returns Found under a cap Some(m) returns a pattern
\* with at most m live cells in generation 0, and cell_count(0) says so
C8_CellCountCap ==
    [][(/\ pc # "idle" /\ pc' = "idle" /\ status' = "Found"
        /\ world.max_cell_count # NoneVal)
       => /\ world'.cell_count[0] <= world.max_cell_count
          /\ world'.cell_count[0]
                = Cardinality(Gen0Alive(world'.config, world'.state))]_vars

\* C8 witness: Found was returned under a configured cap
C8_Witness ==
    /\ Returned("Found")
    /\ world.config.max_cell_count # NoneVal
    /\ world.cell_count[0] > 0
    /\ world.cell_count[0] <= world.config.max_cell_count

\* C9: with non_empty_front, a pattern returned with Found has a live
\* cell in the front
C9_FrontNotEmpty ==
    (Returned("Found") /\ world.non_empty_front) =>
        \E c \in Cells(world.config) :
            is_front(world.config, c) /\ world.state[c] = Alive

\* C9 witness: Found was returned with non_empty_front by a search that
\* first decides front cells Dead
C9_Witness ==
    /\ Returned("Found")
    /\ world.non_empty_front
    /\ world.new_state = "Dead"
    /\ world.front_cell_count > 0

\* C10: in the scenario with non_empty_front = true, search(None) returns
\* None
C10_ContradictoryIsNone ==
    (ScenarioCapZero(world) /\ world.non_empty_front /\ FirstCallReturned) =>
        status = "None"

\* C10 witness: the first search(None) of that scenario has returned
C10_Witness ==
    /\ ScenarioCapZero(world)
    /\ world.non_empty_front
    /\ FirstCallReturned
    /\ world.set_stack = <<>>

\* the cells that are images of each other under the imposed symmetry:
\* pairs of known cells of the same generation
SymPairs(w) ==
    {p \in Cells(w.config) \X Cells(w.config) :
        /\ p[2] \in symSet(w.config, p[1])
        /\ w.state[p[1]] # Unknown
        /\ w.state[p[2]] # Unknown}

\* C11: whenever search returns Found, every cell has the state of each
\* of its symmetry partners of the same generation
C11_FoundIsSymmetric ==
    Returned("Found") =>
        \A c \in Cells(world.config) : \A s \in symSet(world.config, c) :
            world.state[c] = world.state[s]

\* C11 witness: Found was returned under a symmetry, with a live cell off
\* the axis of the symmetry
C11_Witness ==
    /\ Returned("Found")
    /\ \E c \in Cells(world.config) :
          symSet(world.config, c) # {} /\ world.state[c] = Alive

\* C12: in every reachable state, two cells of the same symmetry class
\* have the same state unless one of them is Unknown
C12_SymmetryInvariant ==
    \A p \in SymPairs(world) : world.state[p[1]] = world.state[p[2]]

\* C12: the same, in the states in which no conflict waits for analyze
C12_SymmetryOutsideConflict ==
    pc # "analyze" => \A p \in SymPairs(world) : world.state[p[1]] = world.state[p[2]]

\* C12 witness: under a symmetry, a decided cell waits for proceed while
\* its partner is still Unknown
C12_Witness ==
    /\ pc = "go"
    /\ world.check_index < Len(world.set_stack)
    /\ \E c \in Cells(world.config) : \E s \in symSet(world.config, c) :
          world.state[c] # Unknown /\ world.state[s] = Unknown

\* the entries of a saved stack that name no cell, or name the cell of an
\* earlier entry with another state
Refused(s) ==
    {k \in 1 .. Len(s.set_stack) :
        \/ s.set_stack[k].coord \notin Cells(s.config)
        \/ \E j \in 1 .. k - 1 :
              /\ s.set_stack[j].coord = s.set_stack[k].coord
              /\ s.set_stack[j].state # s.set_stack[k].state}

\* C13: restoring a snapshot returns Err(SetCellError(coord)) and no world
\* for the first entry that names no cell or whose cell already holds
\* another state, and Ok when there is no such entry
C13_RestoreFailsOnDisagreement ==
    restored # <<>> =>
        IF Refused(snapshot[1]) = {}
        THEN restored[1].ok /\ DOMAIN restored[1] = {"ok", "w"}
        ELSE /\ ~restored[1].ok
             /\ DOMAIN restored[1] = {"ok", "coord"}
             /\ \E k \in Refused(snapshot[1]) :
                   /\ \A j \in Refused(snapshot[1]) : k <= j
                   /\ restored[1].coord = snapshot[1].set_stack[k].coord

\* C13 witness: a restore failed on an entry whose cell an earlier entry
\* had set to the other state
C13_Witness ==
    /\ restored # <<>>
    /\ ~restored[1].ok
    /\ restored[1].coord \in Cells(snapshot[1].config)

\* C14: the world restored from w.ser() gives, searched to completion with
\* search(None), the status and (with Choose) the pattern that w gives
C14_RoundTripVerdict ==
    (/\ restored # <<>>
     /\ snapshot = <<ser(world)>>
     /\ world.new_state # "Random")
    => /\ restored[1].ok
       /\ search(restored[1].w).ret = search(world).ret
       /\ search(restored[1].w).w.state = search(world).w.state

\* C14 for the worlds the caller never gave a new cap
C14_RoundTripWithoutCap ==
    (/\ restored # <<>>
     /\ snapshot = <<ser(world)>>
     /\ ~cap_set
     /\ world.new_state # "Random")
    => /\ restored[1].ok
       /\ restored[1].w = world

\* a Config whose transformation or symmetry needs a square world, in a
\* world that is not square
SquareWorldError(cfg) ==
    /\ cfg.width # cfg.height
    /\ TransformSquareWorld(cfg.transform) \/ SymmetrySquareWorld(cfg.symmetry)

\* a Config whose width, height or period is not positive
NonPositiveError(cfg) == cfg.width <= 0 \/ cfg.height <= 0 \/ cfg.period <= 0

\* C15: set_world returns an error, and no world, for a Config whose
\* transformation or symmetry needs a square world while width # height,
\* and for a Config whose width, height or period is not positive.
C15_ConfigErrorsRaised ==
    \A k \in DOMAIN built :
        SquareWorldError(config) \/ NonPositiveError(config) => ~built[k].ok

\* the effective size auto_search_order compares
EffectiveSize(cfg) ==
    CASE cfg.symmetry = "D2-" -> <<cfg.width, (cfg.height + 1) \div 2>>
      [] cfg.symmetry = "D2|" -> <<(cfg.width + 1) \div 2, cfg.height>>
      [] OTHER -> <<cfg.width, cfg.height>>

\* the order the effective size and the translation call for
OrderFor(e, cfg) ==
    IF e[1] > e[2] THEN "ColumnFirst"
    ELSE IF e[1] < e[2] THEN "RowFirst"
    ELSE IF Abs(cfg.dx) >= Abs(cfg.dy) THEN "ColumnFirst"
    ELSE "RowFirst"

\* C16: auto_search_order returns the configured order when there is one;
\* otherwise ColumnFirst when the effective width exceeds the effective
\* height, RowFirst when it is smaller, and on a tie ColumnFirst iff
\* |dx| >= |dy|, the height being halved (rounding up) under D2- and the
\* width under D2|.
C16_AutoSearchOrder ==
    \A k \in DOMAIN order :
        order[k] = IF config.search_order # "Auto" THEN config.search_order
                   ELSE OrderFor(EffectiveSize(config), config)

\* the order was derived for a world that is only tied after halving its
\* height, and the translation broke the tie
C16_Witness ==
    /\ order = <<"RowFirst">>
    /\ config.search_order = "Auto"
    /\ config.symmetry = "D2-"
    /\ config.width < config.height
    /\ EffectiveSize(config)[1] = EffectiveSize(config)[2]
    /\ Abs(config.dx) < Abs(config.dy)

\* every search_list cell at an index below search_index is known
KnownBelowSearchIndex(w) ==
    \A k \in 1 .. w.search_index : w.state[search_list(w.config)[k]] # Unknown

\* no cell of any generation is Unknown
FullyDetermined(w) == \A c \in Cells(w.config) : w.state[c] # Unknown

Top(w) == w.set_stack[Len(w.set_stack)]

TenCells(cfg, cell) ==
    ({cell, pred(cfg, cell)} \cup {nbhd(cfg, cell, i) : i \in 0 .. 7}) \ {NoCell}

\* the symmetry partners of the cell hold its state, and consistify finds
\* nothing to deduce and no conflict in its 10-cell neighbourhood
Propagated(w, cell) ==
    /\ \A s \in symSet(w.config, cell) : w.state[s] = w.state[cell]
    /\ \A c \in TenCells(w.config, cell) :
          consistify(w, c) = [w |-> w, err |-> Ok]

\* the conflict comes from the symmetry partners or the 10-cell
\* neighbourhood of the cell, or from a cap on the cell counts
RaisedAt(w, cell, reason) ==
    /\ reason.tag \in {"Sym", "Rule", "CellCount"}
    /\ reason.tag = "Sym" =>
          /\ reason.cell = cell
          /\ reason.sym \in symSet(w.config, cell)
          /\ w.state[reason.sym] = Not(w.state[cell])
    /\ reason.tag = "Rule" => reason.cell \in TenCells(w.config, cell)

\* C19: when proceed returns Ok, check_index equals the length of
\* set_stack and every cell on the stack has its symmetry partners in its
\* state and its 10-cell neighbourhood consistified; when it returns Err,
\* check_index still points at the cell whose processing met the conflict.
C19_ProceedDrainsOrConflicts ==
    /\ pc = "decide" =>
          /\ world.check_index = Len(world.set_stack)
          /\ \A k \in 1 .. Len(world.set_stack) :
                Propagated(world, world.set_stack[k])
    /\ pc = "analyze" =>
          /\ world.check_index < Len(world.set_stack)
          /\ RaisedAt(world, world.set_stack[world.check_index + 1], confl)
          /\ \A k \in 1 .. world.check_index :
                \A s \in symSet(world.config, world.set_stack[k]) :
                    world.state[s] = world.state[world.set_stack[k]]

\* proceed has drained a stack on which symmetry and the rule set cells
C19_Witness ==
    /\ pc = "decide"
    /\ world.check_index = Len(world.set_stack)
    /\ \E k \in 1 .. Len(world.set_stack) :
          world.reason[world.set_stack[k]].tag = "Sym"
    /\ \E k \in 1 .. Len(world.set_stack) :
          world.reason[world.set_stack[k]].tag = "Rule"

\* proceed has met a conflict while cells above check_index were pending
C19_WitnessConflict ==
    /\ pc = "analyze"
    /\ confl.tag = "Rule"
    /\ world.check_index + 1 < Len(world.set_stack)

\* the stack positions of the cells set for the reason Assume
AssumeAt(w) ==
    {k \in 1 .. Len(w.set_stack) : w.reason[w.set_stack[k]].tag = "Assume"}

\* the position of the topmost cell set for the reason Assume
TopAssume(w) == CHOOSE a \in AssumeAt(w) : \A b \in AssumeAt(w) : b <= a

\* what cancel leaves of the world `w` whose topmost Assume cell is at
\* position `a`, and what it returns, in `r`
CancelFrame(w, a, r) ==
    LET gone == {w.set_stack[k] : k \in a .. Len(w.set_stack)}
    IN  /\ r.cell = w.set_stack[a]
        /\ r.state = w.state[w.set_stack[a]]
        /\ r.w.set_stack = SubSeq(w.set_stack, 1, a - 1)
        /\ r.w.check_index = a - 1
        /\ r.w.search_index = w.reason[w.set_stack[a]].i + 1
        /\ r.w.level = w.level - 1
        /\ \A c \in gone :
              /\ r.w.state[c] = Unknown
              /\ r.w.reason[c] = NoReason
              /\ r.w.cell_level[c] = NoneVal
        /\ \A c \in Cells(w.config) \ gone :
              /\ r.w.state[c] = w.state[c]
              /\ r.w.reason[c] = w.reason[c]
              /\ r.w.cell_level[c] = w.cell_level[c]
        /\ r.w.conflicts = w.conflicts
        /\ r.w.max_cell_count = w.max_cell_count

\* C20: on a stack that holds a cell set for the reason Assume, cancel pops
\* and clears the topmost such cell and the cells above it and no other,
\* sets check_index to the new length of the stack and search_index to
\* i + 1, lowers the level by one and returns the cell with its old state.
C20_CancelFrame ==
    AssumeAt(world) # {} => CancelFrame(world, TopAssume(world), cancel(world))

\* analyze is about to back up, hence to cancel, from a cell-count
\* conflict, with propagated cells above the topmost of two or more
\* decisions
C20_Witness ==
    /\ pc = "analyze"
    /\ confl.tag = "CellCount"
    /\ Cardinality(AssumeAt(world)) > 1
    /\ TopAssume(world) < Len(world.set_stack)
    /\ CancelFrame(world, TopAssume(world), cancel(world))

\* the cells of `w` set for the reason Assume that are no longer decisions
\* of `v`
Cancelled(w, v) ==
    {w.set_stack[k] : k \in AssumeAt(w)} \ {v.set_stack[k] : k \in AssumeAt(v)}

\* backup returned true from the world `w` with the result `b`: a decision
\* of `w` is on top of the stack in the other state for the reason
\* Conflict, check_index points at it, and below it lies what lay below it
BackedUp(w, b) ==
    /\ b.w.set_stack # <<>>
    /\ b.w.reason[Top(b.w)].tag = "Conflict"
    /\ b.w.check_index = Len(b.w.set_stack) - 1
    /\ \E a \in AssumeAt(w) :
          /\ w.set_stack[a] = Top(b.w)
          /\ b.w.state[Top(b.w)] = Not(w.state[w.set_stack[a]])
          /\ b.w.set_stack = Append(SubSeq(w.set_stack, 1, a - 1), w.set_stack[a])

\* C21: backup returns true exactly when a cancelled decision was assigned
\* the opposite state for the reason Conflict, which then is the top of the
\* stack with check_index pointing at it; it returns false only with no
\* decision and no cell left on the stack; no cancelled decision keeps its
\* state.
C21_Backup ==
    /\ backup(world).ok => BackedUp(world, backup(world))
    /\ ~backup(world).ok =>
          /\ backup(world).w.set_stack = <<>>
          /\ \A c \in Cells(world.config) : backup(world).w.state[c] = Unknown
    /\ \A c \in Cancelled(world, backup(world).w) :
          backup(world).w.state[c] # world.state[c]

\* analyze is about to back up from a cell-count conflict, and backup will
\* succeed only at the second decision it cancels
C21_Witness ==
    /\ pc = "analyze"
    /\ confl.tag = "CellCount"
    /\ backup(world).ok
    /\ Cardinality(Cancelled(world, backup(world).w)) > 1
    /\ BackedUp(world, backup(world))

\* backup is about to fail: every decision is cancelled, none can be flipped
C21_WitnessExhausted ==
    /\ pc = "analyze"
    /\ AssumeAt(world) # {}
    /\ ~backup(world).ok

\* the search_list indices (0-based) at or after search_index whose cell is
\* Unknown
UnknownFrom(w) ==
    {k \in w.search_index .. Len(search_list(w.config)) - 1 :
        w.state[search_list(w.config)[k + 1]] = Unknown}

\* the state the configured NewState asks for; Random allows either
Chosen(w, c, state) ==
    /\ w.new_state = "Dead" => state = background(c)
    /\ w.new_state = "Alive" => state = Not(background(c))

\* decide took the cell `c` at index `i` of the world `w` and left `d`
Decided(w, i, c, d) ==
    /\ d.res = "Some"
    /\ d.w.search_index = i + 1
    /\ d.w.level = w.level + 1
    /\ d.w.cell_level[c] = w.level + 1
    /\ d.w.reason[c] = Assume(i)
    /\ Chosen(w, c, d.w.state[c])
    /\ d.w.state[c] # Unknown
    /\ d.w.set_stack = Append(w.set_stack, c)
    /\ d.w.check_index = w.check_index
    /\ \A e \in Cells(w.config) \ {c} :
          /\ d.w.state[e] = w.state[e]
          /\ d.w.reason[e] = w.reason[e]
          /\ d.w.cell_level[e] = w.cell_level[e]

\* C22: decide takes the first Unknown cell at a search_list index i at or
\* after search_index, sets search_index to i + 1, opens a decision level
\* and assigns the cell for the reason Assume(i) its background under
\* Choose(Dead) and the opposite under Choose(Alive); with no such cell it
\* returns None and changes nothing.
C22_Decide ==
    \A coin \in {Alive, Dead} :
        IF UnknownFrom(world) = {}
        THEN decide(world, coin).res = "None" /\ decide(world, coin).w = world
        ELSE \E i \in UnknownFrom(world) :
                /\ \A j \in UnknownFrom(world) : i <= j
                /\ Decided(world, i, search_list(world.config)[i + 1],
                           decide(world, coin))

\* decide is entered under Choose(Alive) and has to skip known cells to
\* reach the first Unknown one
C22_Witness ==
    /\ pc = "decide"
    /\ world.new_state = "Alive"
    /\ UnknownFrom(world) # {}
    /\ world.search_index \notin UnknownFrom(world)
    /\ decide(world, Dead).w.state[Top(decide(world, Dead).w)] = Alive

\* decide is entered with no Unknown cell left
C22_WitnessNone ==
    /\ pc = "decide"
    /\ UnknownFrom(world) = {}
    /\ decide(world, Dead).res = "None"

\* C23: the decision level equals the number of cells on set_stack set for
\* the reason Assume, no cell on the stack has a level above it, and the
\* levels do not decrease from the bottom of the stack to the top.
C23_DecisionLevel ==
    /\ world.level = Cardinality(AssumeAt(world))
    /\ \A k \in 1 .. Len(world.set_stack) :
          /\ world.cell_level[world.set_stack[k]] # NoneVal
          /\ world.cell_level[world.set_stack[k]] <= world.level
    /\ \A j, k \in 1 .. Len(world.set_stack) :
          j < k => world.cell_level[world.set_stack[j]]
                      <= world.cell_level[world.set_stack[k]]

\* analyze has flipped a decision and left cells of two or more levels on
\* the stack
C23_Witness ==
    /\ pc = "go"
    /\ branch = "assume"
    /\ world.level > 0
    /\ world.cell_level[Top(world)] = world.level
    /\ world.cell_level[world.set_stack[1]] < world.level

\* the cells on the stack
OnStack(w) == {w.set_stack[k] : k \in 1 .. Len(w.set_stack)}

\* C24: set_stack holds no cell twice, every cell on it has a known state
\* and a recorded reason, and every cell that is not on it (never set, or
\* popped by cancel, backup or analyze and not pushed again) is Unknown.
C24_StackWellFormed ==
    /\ \A j, k \in 1 .. Len(world.set_stack) :
          j # k => world.set_stack[j] # world.set_stack[k]
    /\ \A c \in OnStack(world) :
          /\ c \in Cells(world.config)
          /\ world.state[c] \in {Alive, Dead}
          /\ world.reason[c] # NoReason
    /\ \A c \in Cells(world.config) \ OnStack(world) :
          /\ world.state[c] = Unknown
          /\ world.reason[c] = NoReason

\* analyze has popped cells, which are Unknown again, and has pushed the
\* flipped cell on a stack that still holds other cells
C24_Witness ==
    /\ pc = "go"
    /\ branch \in {"assume", "uip"}
    /\ world.conflicts > 1
    /\ Len(world.set_stack) > 2
    /\ world.reason[Top(world)].tag = "Conflict"
    /\ \E c \in Cells(world.config) : world.state[c] = Unknown

\* analyze ended in its Assume branch on the world `w`, whose topmost
\* decision is at position `p`, and left `a`: the decision is flipped on
\* top of what lay below it, or backup took over from the failed attempt
FlippedDecision(w, p, a) ==
    LET cell == w.set_stack[p]
        below == SubSeq(w.set_stack, 1, p - 1)
        popped == cancel(w)
        tried == set_cell(popped.w, cell, Not(w.state[cell]), ReasonConflict)
    IN  /\ popped.w.check_index = Len(below)
        /\ popped.w.search_index = w.reason[cell].i + 1
        /\ popped.w.state[cell] = Unknown
        /\ IF tried.err = Ok
           THEN /\ a.ok
                /\ a.w.set_stack = Append(below, cell)
                /\ a.w.state[cell] = Not(w.state[cell])
                /\ a.w.reason[cell] = ReasonConflict
                /\ a.w.check_index = Len(below)
                /\ a.w.search_index = w.reason[cell].i + 1
           ELSE /\ a.ok = backup(tried.w).ok
                /\ a.w = backup(tried.w).w

C25_WitnessFallback ==
    /\ pc = "analyze"
    /\ confl.tag \in {"Rule", "Sym"}
    /\ analyze(world, confl).via = "assume"
    /\ set_cell(cancel(world).w, cancel(world).cell,
                Not(cancel(world).state), ReasonConflict).err # Ok

\* the largest member of a non-empty finite set of numbers
MaxOf(S) == CHOOSE m \in S : \A n \in S : n <= m

\* the levels strictly between 0 and the level of `w` among the cells seen
SeenLevels(w, seen) ==
    {LevelOf(w, c) : c \in {e \in seen : LevelOf(w, e) > 0 /\ LevelOf(w, e) < w.level}}

\* the stack of `w` without the cells of a level above `max_level`
KeptBelow(w, max_level) ==
    LET Low(c) == w.cell_level[c] <= max_level
    IN  SelectSeq(w.set_stack, Low)

\* analyze met the unique implication point `u` in the world `w` and left
\* `a`
Backjumped(w, u, a) ==
    /\ ~a.hang
    /\ u.cell \in OnStack(w)
    /\ u.cell \in u.seen
    /\ w.reason[u.cell].tag \in {"Rule", "Sym"}
    /\ w.cell_level[u.cell] = w.level
    /\ u.state = w.state[u.cell]
    /\ u.max_level = MaxOf({0} \cup SeenLevels(w, u.seen))
    /\ a.w.level <= u.max_level
    /\ IF a.ok /\ Top(a.w) = u.cell
       THEN /\ a.w.state[u.cell] = Not(u.state)
            /\ a.w.reason[u.cell] = ReasonConflict
            /\ a.w.level = u.max_level
            /\ a.w.set_stack = Append(KeptBelow(w, u.max_level), u.cell)
       ELSE /\ a.w.state[u.cell] = Unknown
            /\ a.ok => BackedUp(w, a)
            /\ ~a.ok => a.w.set_stack = <<>>

\* C26: when analyze pops a seen cell while counter is 1, it cancels
\* decisions until the level is no greater than max_level, the highest
\* level strictly between 0 and the conflict level among the cells seen,
\* and then assigns the cell the opposite of its state; it returns true if
\* that succeeds and what backup returns otherwise.
C26_BackjumpTarget ==
    /\ pc = "analyze" /\ confl.tag \in {"Rule", "Sym"} =>
          (analyze(world, confl).via = "uip" =>
              Backjumped(world, analyze(world, confl).uip[1], analyze(world, confl)))
    /\ pc = "go" /\ branch = "uip" =>
          world.set_stack # <<>> /\ world.reason[Top(world)].tag = "Conflict"

\* analyze is about to backjump: it cancels the decision of the conflict
\* level, returns to a level above 0, and flips the cell there
C26_Witness ==
    /\ pc = "analyze"
    /\ confl.tag \in {"Rule", "Sym"}
    /\ analyze(world, confl).via = "uip"
    /\ analyze(world, confl).ok
    /\ Top(analyze(world, confl).w) = analyze(world, confl).uip[1].cell
    /\ analyze(world, confl).uip[1].max_level > 0
    /\ analyze(world, confl).uip[1].max_level < world.level
    /\ analyze(world, confl).w.level = analyze(world, confl).uip[1].max_level

\* the seen cells of the current decision level that are on the stack at
\* the iteration `it` of the loop of analyze
SeenOnStack(it) ==
    {c \in it.seen \ {NoCell} :
        /\ \E k \in 1 .. Len(it.set_stack) : it.set_stack[k] = c
        /\ it.cell_level[c] = it.level}

\* C27: at every iteration of the loop of analyze, counter equals the
\* number of seen cells of the current decision level that are still on
\* set_stack, a popped seen cell of that level having been counted off.
C27_CounterAccounting ==
    pc = "analyze" /\ confl.tag \in {"Rule", "Sym"} =>
        \A n \in DOMAIN analyze(world, confl).trace :
            analyze(world, confl).trace[n].counter
                = Cardinality(SeenOnStack(analyze(world, confl).trace[n]))
\* the premise cells of c: its reason expanded by SetReason::cells on the
\* descriptors as they are now
Premises(w, c) == SetReasonCells(w, w.reason[c], c)

\* C28: every assigned cell whose reason is not Assume has only premise
\* cells that are assigned themselves and of a level that is not above its
\* own level.
C28_PremiseLevels ==
    \A c \in Cells(world.config) :
        world.state[c] # Unknown /\ world.reason[c].tag # "Assume" =>
            \A p \in Premises(world, c) :
                /\ world.state[p] # Unknown
                /\ LevelOf(world, p) <= LevelOf(world, c)

\* the place of cell p on the stack, 0 when it is not there
StackIndex(w, p) ==
    IF p \in OnStack(w)
    THEN CHOOSE j \in 1 .. Len(w.set_stack) : w.set_stack[j] = p
    ELSE 0

\* C28 (amended): every premise cell of an assigned cell whose reason is not
\* Assume is assigned and on the stack; a premise that was set before the
\* cell is of a level that is not above the cell's level; and every premise
\* of the cell on top of the stack, the one analyze expands next, was set
\* before it.
C28_PremisesSetEarlier ==
    \A k \in 1 .. Len(world.set_stack) :
        world.reason[world.set_stack[k]].tag # "Assume" =>
            \A p \in Premises(world, world.set_stack[k]) :
                /\ world.state[p] # Unknown
                /\ StackIndex(world, p) > 0
                /\ StackIndex(world, p) < k =>
                      LevelOf(world, p) <= LevelOf(world, world.set_stack[k])
                /\ k = Len(world.set_stack) => StackIndex(world, p) < k

\* analyze is about to pop a cell set by the rule whose premises are of a
\* lower level, while a cell below it has a premise that was decided later
C28_Witness ==
    /\ pc = "analyze"
    /\ world.set_stack # <<>>
    /\ world.reason[Top(world)].tag = "Rule"
    /\ \E p \in Premises(world, Top(world)) :
          LevelOf(world, p) < LevelOf(world, Top(world))
    /\ \E c \in OnStack(world) :
          /\ world.reason[c].tag = "Rule"
          /\ \E p \in Premises(world, c) :
                LevelOf(world, p) > LevelOf(world, c)

\* decide raises a conflict in this step: its set_cell returns an error
\* for the state chosen, and the world goes on from the body run with it
DecideConflict ==
    /\ pc = "decide"
    /\ \E coin \in {Alive, Dead}, checked \in BOOLEAN :
          /\ decide(world, coin).err # Ok
          /\ world' = SearchBody(world, step_count, max_step, coin, checked).w

\* C29: every conflict raised during a call of search, by proceed or by
\* the set_cell of decide, adds exactly one to conflicts and is handed to
\* analyze; conflicts never decreases.
C29_ConflictAccounting ==
    [][/\ world'.conflicts >= world.conflicts
       /\ pc = "go" /\ proceed(world).err # Ok =>
             /\ world'.conflicts = world.conflicts + 1
             /\ pc' = "analyze"
             /\ confl' = proceed(world).err
       /\ DecideConflict => world'.conflicts = world.conflicts + 1]_vars

\* C30: a call of search returns Searching only when max_step is Some(m),
\* more than m calls of proceed were made in this call, and the loop body
\* that follows a successful proceed has just been run; search(None) never
\* returns Searching, and no call returns Paused.
C30_StatusAndStepBound ==
    [][pc' = "idle" =>
          /\ status' \in {"Found", "None", "Searching"}
          /\ max_step' = NoneVal => status' # "Searching"
          /\ status' = "Searching" =>
                /\ pc = "decide"
                /\ max_step # NoneVal
                /\ step_count > max_step
                /\ confl = Ok]_vars

\* search(Some(1)) has returned Searching after two rounds of the loop:
\* the first ended with one call of proceed made and went on, the second
\* with two
C30_Witness ==
    /\ Returned("Searching")
    /\ max_step = 1
    /\ step_count = 2
    /\ world.conflicts = 0
    /\ world.level >= 2

NoAssume(w) ==
    \A k \in 1 .. Len(w.set_stack) : w.reason[w.set_stack[k]].tag # "Assume"

\* C32: set_max_cell_count(Some(m)) returns, and then either the smallest
\* cell_count[t] is at most m, or backtracking is exhausted: no decision is
\* left on the stack and backup returns false. set_max_cell_count(None)
\* changes max_cell_count and nothing else.
C32_SetMaxCellCount ==
    pc = "idle" =>
        /\ \A m \in 0 .. MaxCap :
              /\ set_max_cell_count(world, m).max_cell_count = m
              /\ \/ MinCellCount(set_max_cell_count(world, m)) <= m
                 \/ /\ NoAssume(set_max_cell_count(world, m))
                    /\ ~backup(set_max_cell_count(world, m)).ok
        /\ set_max_cell_count(world, NoneVal)
              = [world EXCEPT !.max_cell_count = NoneVal]

\* a caller can lower the cap below the pattern just found, and the call
\* backs up to a partial pattern within the cap that still holds decisions
C32_Witness ==
    /\ pc = "idle"
    /\ ~cap_set
    /\ snapshot = <<>>
    /\ status = "Found"
    /\ \E m \in 0 .. MaxCap :
          /\ MinCellCount(world) > m
          /\ MinCellCount(set_max_cell_count(world, m)) <= m
          /\ ~NoAssume(set_max_cell_count(world, m))

\* the call ends with the backtracking exhausted: the cap was exceeded,
\* decisions were on the stack, and none is left
C32_WitnessExhausted ==
    /\ pc = "idle"
    /\ ~cap_set
    /\ snapshot = <<>>
    /\ ~NoAssume(world)
    /\ \E m \in 0 .. MaxCap :
          /\ MinCellCount(world) > m
          /\ NoAssume(set_max_cell_count(world, m))
          /\ ~backup(set_max_cell_count(world, m)).ok

\* a call returns Found in this step
ReturnsFound == pc = "decide" /\ pc' = "idle" /\ status' = "Found"

\* C33: with Choose(_) and an unchanged max_cell_count, no complete
\* assignment is returned as Found twice in a sequence of calls of search,
\* and the sequence of calls eventually returns None.
C33_DistinctResults ==
    /\ [][ReturnsFound => world'.state \notin found]_vars
    /\ <>Returned("None")

\* the part of C33 that ends with the first None: up to it no complete
\* assignment is returned twice, and it is reached
C33_DistinctUntilNone ==
    /\ [][ReturnsFound /\ n_results = Cardinality(found) =>
             world'.state \notin found]_vars
    /\ <>Returned("None")

\* C34: once a call of search has returned None, every later call on the
\* same world with unchanged parameters returns None as well.
C34_NoneIsAbsorbing ==
    [][status = "None" /\ pc' = "idle" => status' = "None"]_vars

\* the part of C34 that holds: a call of search(None) made after None in a
\* world that has no result returns None again
C34_NoneAgainWithoutResults ==
    [][status = "None" /\ found = {} /\ max_step' = NoneVal /\ pc' = "idle"
          => status' = "None"]_vars

\* C35: restoring the snapshot of any reachable world succeeds, and the
\* restored world has the conflicts, check_index and search_index of the
\* saved one, the same state for every cell, and a set_stack of the same
\* cells in the same order with the same reasons.
C35_StateRoundTrip ==
    /\ world_with_rule(ser(world)).ok
    /\ world_with_rule(ser(world)).w.conflicts = world.conflicts
    /\ world_with_rule(ser(world)).w.check_index = world.check_index
    /\ world_with_rule(ser(world)).w.search_index = world.search_index
    /\ world_with_rule(ser(world)).w.state = world.state
    /\ world_with_rule(ser(world)).w.set_stack = world.set_stack
    /\ \A c \in OnStack(world) :
          world_with_rule(ser(world)).w.reason[c] = world.reason[c]

\* a world that met conflicts, holds decided and implied cells and was
\* given a new cap has been saved and restored
C35_Witness ==
    /\ restored # <<>>
    /\ snapshot = <<ser(world)>>
    /\ restored[1].ok
    /\ restored[1].w.set_stack = world.set_stack
    /\ cap_set
    /\ world.conflicts > 0
    /\ \E c \in OnStack(world) : world.reason[c].tag = "Assume"
    /\ \E c \in OnStack(world) : world.reason[c].tag = "Rule"
    /\ \E c \in OnStack(world) : world.reason[c].tag = "Conflict"

\* the last message was a status from the worker
StatusReceived(m) == m # <<>> /\ m[1].response = "UpdateStatus"

\* C36: after any sequence of messages the interval task is active exactly
\* when the last status received by UpdateStatus is Searching (the status
\* the page holds is the last one received, Initial before any); the task
\* is started only on a change into Searching and stopped only on a change
\* out of Searching.
C36_TimerTracksStatus ==
    /\ [](app.interval_task <=> app.status = "Searching")
    /\ [][/\ (IF StatusReceived(msg') THEN app'.status = msg'[1].status
               ELSE app'.status = app.status)
           /\ (~app.interval_task /\ app'.interval_task =>
                 app.status # "Searching" /\ app'.status = "Searching")
           /\ (app.interval_task /\ ~app'.interval_task =>
                 app.status = "Searching" /\ app'.status # "Searching")]_vars

\* the worker has reported Searching to a page that showed a generation
\* other than the first, and the interval task runs
C36_Witness ==
    /\ StatusReceived(msg)
    /\ msg[1].status = "Searching"
    /\ app.interval_task
    /\ app.gen > 0

\* the worker has reported Paused and no interval task runs
C36_WitnessStopped ==
    /\ StatusReceived(msg)
    /\ msg[1].status = "Paused"
    /\ ~app.interval_task
    /\ app.max_partial

\* C37: with period >= 1 the displayed generation stays within
\* 0 .. config.period - 1 under any sequence of messages; IncGen at
\* gen = period - 1 and DecGen at gen = 0 change nothing and send no
\* request.
C37_GenInRange ==
    /\ 0 <= app.gen
    /\ app.gen <= app.config.period - 1
    /\ app.gen = app.config.period - 1 =>
          update(app, Msg("IncGen")) = Quiet(app, FALSE)
    /\ app.gen = 0 => update(app, Msg("DecGen")) = Quiet(app, FALSE)

\* the part of C37 that holds: the generation is never negative, never
\* beyond the largest period the page was given, and within the period
\* unless the worker has just replaced the Config; IncGen at or beyond the
\* last generation and DecGen at the first change nothing and send nothing
C37_GenInRangeUntilUpdateConfig ==
    /\ 0 <= app.gen
    /\ app.gen <= MaxPeriod - 1
    /\ app.gen >= app.config.period - 1 =>
          update(app, Msg("IncGen")) = Quiet(app, FALSE)
    /\ app.gen = 0 => update(app, Msg("DecGen")) = Quiet(app, FALSE)

====
